---- MODULE Spec2Model ----
(***************************************************************************)
(* SkillAlign recommendation engine: the POST /recommendations route, the  *)
(* RecommendationsService, the RecommendationsRepo (FAISS search merged    *)
(* with the Neo4j fetch/filter query), the MLEngine singleton and the      *)
(* graph the ETL loads.                                                    *)
(* Further parts: the notes admin routes, the graph skill-gap route, the   *)
(* legacy recommendations endpoint of main.py and the Neo4j client.        *)
(*                                                                         *)
(* Strings are sequences of one-character strings, so that split, STARTS   *)
(* WITH and ORDER BY are computed the way the code computes them.          *)
(* A unit embedding vector is an angle in steps of 60 degrees; the squared *)
(* L2 distance of two unit vectors at angle difference 0,1,2,3 steps is    *)
(* exactly 0,1,3,4.                                                        *)
(***************************************************************************)
EXTENDS Integers, Sequences, FiniteSets, TLC

(* ------------------------------ bounds --------------------------------- *)
\* request limits 1..MaxLimit are enumerated (next to 0, -1, 100 and 101)
MaxLimit == 2
\* index vectors are drawn from the angles 0..MaxAngle
MaxAngle == 3
\* how many answers of one request are counted
MaxRepeats == 2
\* how many assignments of one resource are counted
MaxLoads == 2
\* how many Neo4jClient objects init_neo4j_client creates
MaxClients == 2
\* how many drivers one client creates, and how many sessions are opened
MaxConnects == 2
MaxSessions == 2

(* ------------------------- program constants --------------------------- *)
OverFetchFactor == 3
MaxAllowedLimit == 100
MaxBroaderHops == 5
ScoreDen == 2

(* ------------------------------ strings -------------------------------- *)
\* Python None / Cypher null: a value no string of the model equals
None == <<"<None>">>
\* None where a list of strings is expected
NoList == <<None>>
\* None where an object (a record) is expected
Unloaded == <<>>

Min(a, b) == IF a < b THEN a ELSE b
Max(a, b) == IF a > b THEN a ELSE b

Range(s) == {s[i] : i \in 1..Len(s)}

\* Cypher: a STARTS WITH p (null operands give null, which a WHERE rejects)
StartsWith(a, p) ==
    /\ a # None
    /\ p # None
    /\ Len(p) <= Len(a)
    /\ SubSeq(a, 1, Len(p)) = p

\* positions at which the separator "/C" begins in uri
SepPositions(uri) ==
    {i \in 1..(Len(uri) - 1) : uri[i] = "/" /\ uri[i + 1] = "C"}

\* the uri used as the code
SplitLastC_WholeUri(uri) == uri

\* Python: uri.split('/C')[-1]
SplitLastC(uri) ==
    LET P == SepPositions(uri)
    IN  IF P = {} THEN uri
        ELSE LET last == CHOOSE i \in P : \A j \in P : j <= i
             IN  SubSeq(uri, last + 2, Len(uri))

\* the characters of the model's strings, in code point order
Alphabet == <<" ", "/", "1", "2", "3", "5", "C", "a", "b", "c", "d", "e", "o", "p", "q", "r", "s", "x">>

CharOrd(c) == CHOOSE i \in 1..Len(Alphabet) : Alphabet[i] = c

\* string comparison of ORDER BY: lexicographic, a proper prefix first
RECURSIVE StrLess(_, _)
StrLess(s, t) ==
    IF t = <<>> THEN FALSE
    ELSE IF s = <<>> THEN TRUE
    ELSE IF CharOrd(Head(s)) # CharOrd(Head(t))
         THEN CharOrd(Head(s)) < CharOrd(Head(t))
    ELSE StrLess(Tail(s), Tail(t))

\* Python: " ".join(labels)
RECURSIVE JoinSpace(_)
JoinSpace(labels) ==
    IF labels = <<>> THEN <<>>
    ELSE IF Len(labels) = 1 THEN labels[1]
    ELSE labels[1] \o <<" ">> \o JoinSpace(Tail(labels))

RECURSIVE SeqSum(_)
SeqSum(s) == IF s = <<>> THEN 0 ELSE s[1] + SeqSum(Tail(s))

(* ------------------------------ universe ------------------------------- *)
O1 == <<"o", "1">>
O2 == <<"o", "2">>
O3 == <<"o", "3">>
OccUris == {O1, O2, O3}

S1 == <<"s", "1">>
S2 == <<"s", "2">>
SX == <<"s", "x">>
SkillUris == {S1, S2}

G2  == <<"e", "/", "C", "2">>
G25 == <<"e", "/", "C", "2", "5">>
G3  == <<"e", "/", "C", "3">>
GEmpty == <<"e", "/", "C">>
GBare == <<"2">>
GroupUris == {G2, G25, G3}

Digital == <<"d">>
Research == <<"r">>
SchemeUris == {Digital, Research}

(* ------------------------- the graph and its ETL ----------------------- *)
\* a node has one label and properties; an edge has a type and properties
Node(label, props) == [label |-> label, props |-> props]
Edge(from, type, to, props) == [from |-> from, type |-> type, to |-> to, props |-> props]

\* property access: an absent property is null
Prop(x, name) == IF name \in DOMAIN x.props THEN x.props[name] ELSE None

load_occupations(rows) ==
    {Node("Occupation", [uri |-> r.conceptUri, preferredLabel |-> r.preferredLabel]) : r \in rows}

load_skills(rows) ==
    {Node("Skill", [uri |-> r.conceptUri, preferredLabel |-> r.preferredLabel,
                    skillType |-> r.skillType]) : r \in rows}

load_requires(rows) ==
    {Edge(r.occupationUri, "REQUIRES", r.skillUri,
          [relation |-> r.relationType, skillType |-> r.skillType]) : r \in rows}

load_occ_groups(rows) ==
    {Node("OccupationGroup", [uri |-> r.conceptUri, code |-> r.code, label |-> r.preferredLabel]) : r \in rows}

load_in_occ_group(rows) ==
    {Edge(r.occUri, "IN_OCC_GROUP", r.groupUri, <<>>) : r \in rows}

load_occ_group_hierarchy(rows) ==
    {Edge(r.narrowUri, "BROADER_THAN_OCC_GROUP", r.broaderUri, <<>>) : r \in rows}

load_concept_schemes(rows) ==
    {Node("ConceptScheme", [uri |-> r.conceptSchemeUri, label |-> r.preferredLabel]) : r \in rows}

load_in_scheme_occ(rows) ==
    {Edge(r.occUri, "IN_SCHEME", r.schemeUri, <<>>) : r \in rows}

\* load_rich_esco_to_neo4j: the graph built from the raw CSV tables
load_rich_esco_to_neo4j(raw) ==
    LET occ_uris       == {r.conceptUri : r \in raw.occupations}
        skill_uris     == {r.conceptUri : r \in raw.skills}
        occ_group_uris == {r.conceptUri : r \in raw.isco_groups}
        requires_rows  == {r \in raw.relations :
                              r.occupationUri \in occ_uris /\ r.skillUri \in skill_uris}
        occ_in_group_rows ==
            {[occUri |-> r.conceptUri, groupUri |-> r.broaderUri] :
                r \in {x \in raw.occ_broader :
                          x.conceptUri \in occ_uris /\ x.broaderUri \in occ_group_uris}}
        occ_group_hierarchy_rows ==
            {[narrowUri |-> r.conceptUri, broaderUri |-> r.broaderUri] :
                r \in {x \in raw.occ_broader :
                          /\ ~(x.conceptUri \in occ_uris /\ x.broaderUri \in occ_group_uris)
                          /\ x.conceptUri \in occ_group_uris
                          /\ x.broaderUri \in occ_group_uris}}
        scheme_uris == {r.conceptSchemeUri : r \in raw.concept_schemes}
        occ_in_scheme_rows ==
            {row \in [occUri : occ_uris, schemeUri : scheme_uris] :
                \E r \in raw.occupations :
                    r.conceptUri = row.occUri /\ row.schemeUri \in r.inScheme}
    IN  [nodes |-> load_occupations(raw.occupations)
                    \cup load_skills(raw.skills)
                    \cup load_occ_groups(raw.isco_groups)
                    \cup load_concept_schemes(raw.concept_schemes),
         edges |-> load_requires(requires_rows)
                    \cup load_in_occ_group(occ_in_group_rows)
                    \cup load_occ_group_hierarchy(occ_group_hierarchy_rows)
                    \cup load_in_scheme_occ(occ_in_scheme_rows)]

(* ------------------------------ state ---------------------------------- *)
VARIABLES
    graph,            \* the Neo4j graph the ETL loaded
    art,              \* the artifacts on disk: model, index file, metadata CSV
    model,            \* MLEngine.model
    faiss_index,      \* MLEngine.faiss_index
    occupation_uris,  \* MLEngine.occupation_uris
    request,          \* the request the route handled last
    response,         \* its HTTP answer
    svc_outcome,      \* how RecommendationsService.get_recommendations ended
    graph_queries,    \* run_query calls issued for it
    encode_inputs,    \* the texts lists handed to MLEngine.encode for it
    search_top_k,     \* the top_k values handed to MLEngine.search for it
    faiss_results,    \* the candidate list MLEngine.search returned
    fetched,          \* the uris _fetch_occupations_with_skills returned
    neo4j_fault,      \* the run_query that raises for the request, if any
    ready_answers,    \* the answers MLEngine.is_ready has given so far
    last_call,        \* the last direct call of an operation, and its outcome
    gap_log,          \* match percentages step 5 computed, per user skill list
    pc,               \* where each worker thread stands in MLEngine._load_resources
    loads,            \* how often the threads assigned model, index and mapping
    answers,          \* per observed request: the answers it got, and how often
    notes,            \* the Note nodes (id -> text) and HAS_NOTE links of the graph
    clients,          \* the Neo4jClient objects created so far: their _driver
    neo4j_client,     \* deps._neo4j_client: 0 for None, else a position in clients
    sessions          \* driver sessions opened and closed by run_query

vars == <<graph, art, model, faiss_index, occupation_uris, request, response,
          svc_outcome, graph_queries, encode_inputs, search_top_k,
          faiss_results, fetched, neo4j_fault, ready_answers, last_call, gap_log,
          pc, loads, answers, notes, clients, neo4j_client, sessions>>

\* the state the recommendation handlers and the engine calls never touch
sideVars == <<pc, loads, notes, clients, neo4j_client, sessions>>

(* ------------------------------ MLEngine ------------------------------- *)
\* a vector: dimension, direction (angle in steps of 60 degrees) and length
Vec(dim, angle, norm) == [dim |-> dim, angle |-> angle, norm |-> norm]

Engine(m, f, u) == [model |-> m, faiss_index |-> f, occupation_uris |-> u]

\* the loader without the comparison of the two dimensions
_load_resources_NoDimCheck(e, a) ==
    IF e.faiss_index # Unloaded /\ e.model # Unloaded
    THEN [eng |-> e, raised |-> FALSE]
    ELSE IF ~a.model_ok
    THEN [eng |-> e, raised |-> TRUE]
    ELSE IF ~a.index_exists
    THEN [eng |-> [e EXCEPT !.model = [dim |-> a.model_dim]], raised |-> TRUE]
    ELSE IF ~a.meta_exists \/ ~a.meta_has_column
    THEN [eng |-> [e EXCEPT !.model = [dim |-> a.model_dim], !.faiss_index = a.index],
          raised |-> TRUE]
    ELSE [eng |-> Engine([dim |-> a.model_dim], a.index, a.meta_uris), raised |-> FALSE]

\* MLEngine._load_resources on engine e with the artifacts a
_load_resources(e, a) ==
    IF e.faiss_index # Unloaded /\ e.model # Unloaded
    THEN [eng |-> e, raised |-> FALSE]
    ELSE IF ~a.model_ok
    THEN [eng |-> e, raised |-> TRUE]
    ELSE LET e1 == [e EXCEPT !.model = [dim |-> a.model_dim]]
         IN  IF ~a.index_exists
             THEN [eng |-> e1, raised |-> TRUE]
             ELSE LET e2 == [e1 EXCEPT !.faiss_index = a.index]
                  IN  IF a.model_dim # a.index.d
                      THEN [eng |-> e2, raised |-> TRUE]
                      ELSE IF ~a.meta_exists \/ ~a.meta_has_column
                      THEN [eng |-> e2, raised |-> TRUE]
                      ELSE [eng |-> [e2 EXCEPT !.occupation_uris = a.meta_uris],
                            raised |-> FALSE]

\* readiness judged by the index and the model alone
is_ready_IndexAndModelOnly(e, a) ==
    LET l == _load_resources(e, a)
    IN  [eng   |-> l.eng,
         value |-> /\ ~l.raised
                   /\ l.eng.faiss_index # Unloaded
                   /\ l.eng.model # Unloaded]

\* not ready in the call that did the loading, ready from the next call on
is_ready_FalseWhileLoading(e, a) ==
    LET l == _load_resources(e, a)
    IN  [eng   |-> l.eng,
         value |-> /\ ~l.raised
                   /\ e.faiss_index # Unloaded
                   /\ l.eng.faiss_index # Unloaded
                   /\ l.eng.model # Unloaded
                   /\ l.eng.occupation_uris # NoList]

\* MLEngine.is_ready
is_ready(e, a) ==
    LET l == _load_resources(e, a)
    IN  [eng   |-> l.eng,
         value |-> /\ ~l.raised
                   /\ l.eng.faiss_index # Unloaded
                   /\ l.eng.model # Unloaded
                   /\ l.eng.occupation_uris # NoList]

\* the pretrained SentenceTransformer: a text's direction and raw length
CharVal(c) ==
    CASE c = "p" -> 1
      [] c = "q" -> 2
      [] c = "s" -> 3
      [] c = "x" -> 1
      [] OTHER   -> 0

ModelEncode(dim, text) ==
    Vec(dim, SeqSum([i \in 1..Len(text) |-> CharVal(text[i])]) % 6, 1 + Len(text))

\* embeddings / np.linalg.norm(embeddings): same direction, unit length
Normalize(v) == [v EXCEPT !.norm = v.norm \div v.norm]

\* MLEngine.encode
encode(e, a, texts) ==
    LET l == IF e.model = Unloaded THEN _load_resources(e, a)
             ELSE [eng |-> e, raised |-> FALSE]
    IN  IF l.raised
        THEN [eng |-> l.eng, raised |-> TRUE, value |-> <<>>]
        ELSE [eng |-> l.eng, raised |-> FALSE,
              value |-> [i \in 1..Len(texts) |->
                            Normalize(ModelEncode(l.eng.model.dim, texts[i]))]]

\* angle between two directions, in steps
AngleDiff(x, y) ==
    LET d == (x - y) % 6
    IN  Min(d, 6 - d)

\* 2*cos of an angle of d steps of 60 degrees
TwoCos(d) ==
    CASE d = 0 -> 2
      [] d = 1 -> 1
      [] d = 2 -> -1
      [] OTHER -> -2

\* IndexFlatL2: the squared L2 distance of two vectors
L2Sqr(v, w) ==
    v.norm * v.norm + w.norm * w.norm - v.norm * w.norm * TwoCos(AngleDiff(v.angle, w.angle))

\* faiss.Index.search: the top_k nearest ids (0-based) with their distances,
\* nearest first, padded with id -1 when the index holds fewer vectors
RECURSIVE NearestFirst(_, _, _)
NearestFirst(index, q, ids) ==
    IF ids = {} THEN <<>>
    ELSE LET best == CHOOSE i \in ids : \A j \in ids :
                        \/ L2Sqr(q, index.vecs[i + 1]) < L2Sqr(q, index.vecs[j + 1])
                        \/ /\ L2Sqr(q, index.vecs[i + 1]) = L2Sqr(q, index.vecs[j + 1])
                           /\ i <= j
         IN  <<[idx |-> best, distance |-> L2Sqr(q, index.vecs[best + 1])]>>
                \o NearestFirst(index, q, ids \ {best})

IndexSearch(index, q, top_k) ==
    LET hits == NearestFirst(index, q, 0..(Len(index.vecs) - 1))
    IN  [i \in 1..top_k |->
            IF i <= Len(hits) THEN hits[i] ELSE [idx |-> -1, distance |-> -1]]

\* similarity_score = max(0.0, 1.0 - distance*distance/2.0), in units of 1/ScoreDen
SimilarityScore(distance) == Max(0, ScoreDen - distance * distance)

\* the loop without the idx < 0 test: a negative id indexes from the end of the list
MapHits_NegativeFromEnd(uris, hits) ==
    LET kept == SelectSeq(hits, LAMBDA h : h.idx < Len(uris) /\ Len(uris) + h.idx >= 0)
        row(h) == IF h.idx < 0 THEN Len(uris) + h.idx + 1 ELSE h.idx + 1
    IN  [i \in 1..Len(kept) |->
            [uri |-> uris[row(kept[i])], score |-> SimilarityScore(kept[i].distance)]]

\* the loop of MLEngine.search over the ids the index returned
MapHits(uris, hits) ==
    LET kept == SelectSeq(hits, LAMBDA h : ~(h.idx < 0 \/ h.idx >= Len(uris)))
    IN  [i \in 1..Len(kept) |->
            [uri |-> uris[kept[i].idx + 1], score |-> SimilarityScore(kept[i].distance)]]

\* MLEngine.search
search(e, a, query_embedding, top_k) ==
    LET l == IF e.faiss_index = Unloaded \/ e.occupation_uris = NoList
             THEN _load_resources(e, a)
             ELSE [eng |-> e, raised |-> FALSE]
    IN  IF l.raised
        THEN [eng |-> l.eng, raised |-> TRUE, value |-> <<>>]
        ELSE IF query_embedding.dim # l.eng.faiss_index.d
        THEN [eng |-> l.eng, raised |-> TRUE, value |-> <<>>]
        ELSE IF l.eng.occupation_uris = NoList /\ Len(l.eng.faiss_index.vecs) > 0
        THEN [eng |-> l.eng, raised |-> TRUE, value |-> <<>>]  \* len(None)
        ELSE [eng |-> l.eng, raised |-> FALSE,
              value |-> MapHits(l.eng.occupation_uris,
                                IndexSearch(l.eng.faiss_index, query_embedding, top_k))]

(* ------------------------- Cypher over the graph ----------------------- *)
NodesOf(g, label) == {n \in g.nodes : n.label = label}

\* (x)-[:t1|t2]->(n:label)
Out(g, x, types, label) ==
    {n \in NodesOf(g, label) :
        \E e \in g.edges : /\ e.from = Prop(x, "uri")
                           /\ e.type \in types
                           /\ e.to = Prop(n, "uri")}

\* uris reached from the uris in S by exactly one edge of the given types
Hop(g, S, types) == {e.to : e \in {x \in g.edges : x.from \in S /\ x.type \in types}}

\* uris reached from uri by lo..hi edges of the given types
RECURSIVE HopsFrom(_, _, _, _)
HopsFrom(g, S, types, n) ==
    IF n = 0 THEN {}
    ELSE LET next == Hop(g, S, types)
         IN  next \cup HopsFrom(g, next, types, n - 1)

\* (x)-[:types*1..n]->(p:label)
OutTransitive(g, x, types, n, label) ==
    {p \in NodesOf(g, label) : Prop(p, "uri") \in HopsFrom(g, {Prop(x, "uri")}, types, n)}

\* a set of strings as the list ordered by code points
RECURSIVE SortStrings(_)
SortStrings(S) ==
    IF S = {} THEN <<>>
    ELSE LET least == CHOOSE x \in S : \A y \in S : x = y \/ StrLess(x, y)
         IN  <<least>> \o SortStrings(S \ {least})

\* COLLECT without DISTINCT
CollectDistinct_KeepAll(rows) == rows

\* COLLECT(DISTINCT ...): the first occurrence of every value, in row order
RECURSIVE CollectDistinct(_)
CollectDistinct(rows) ==
    IF rows = <<>> THEN <<>>
    ELSE LET rest == CollectDistinct(SubSeq(rows, 1, Len(rows) - 1))
             last == rows[Len(rows)]
         IN  IF last \in Range(rest) THEN rest ELSE Append(rest, last)

Truthy(list) == list # NoList /\ list # <<>>

(* ------------------------- RecommendationsRepo ------------------------- *)
\* the labels of the records the query returned, unresolved uris left out
_get_skill_labels_ResolvedOnly(g, skill_uris) ==
    LET known == SelectSeq(skill_uris,
                           LAMBDA u : \E n \in NodesOf(g, "Skill") : Prop(n, "uri") = u)
    IN  [i \in 1..Len(known) |->
            Prop(CHOOSE n \in NodesOf(g, "Skill") : Prop(n, "uri") = known[i],
                 "preferredLabel")]

\* the label_map and labels of _get_skill_labels, given the query's records
_get_skill_labels(g, skill_uris) ==
    LET results == {n \in NodesOf(g, "Skill") : Prop(n, "uri") \in Range(skill_uris)}
        label_map(uri) ==
            IF \E n \in results : Prop(n, "uri") = uri
            THEN Prop(CHOOSE n \in results : Prop(n, "uri") = uri, "preferredLabel")
            ELSE uri
    IN  [i \in 1..Len(skill_uris) |-> label_map(skill_uris[i])]

\* the WHERE of the group filter forgotten: any group membership passes
GroupClause_AnyGroup(g, o, occupation_groups, occupation_group_codes) ==
    Out(g, o, {"IN_OCC_GROUP"}, "OccupationGroup") # {}

\* the three-way group clause of the WHERE
GroupClause(g, o, occupation_groups, occupation_group_codes) ==
    \/ \E grp \in Out(g, o, {"IN_OCC_GROUP"}, "OccupationGroup") :
          Prop(grp, "uri") \in Range(occupation_groups)
    \/ \E grp \in Out(g, o, {"IN_OCC_GROUP"}, "OccupationGroup") :
          \E parent \in OutTransitive(g, grp, {"broaderTransitive", "broader"},
                                      MaxBroaderHops, "OccupationGroup") :
              Prop(parent, "uri") \in Range(occupation_groups)
    \/ \E grp \in Out(g, o, {"IN_OCC_GROUP"}, "OccupationGroup") :
          \E code \in Range(occupation_group_codes) :
              StartsWith(Prop(grp, "code"), code)

SchemeClause(g, o, schemes) ==
    \E cs \in Out(g, o, {"IN_SCHEME"}, "ConceptScheme") :
        Prop(cs, "uri") \in Range(schemes)

\* the rows of the three OPTIONAL MATCHes for o, projected on the skill map
SkillRows(g, o) ==
    LET suris == SortStrings({Prop(n, "uri") : n \in Out(g, o, {"REQUIRES"}, "Skill")})
        skill(u) == CHOOSE n \in NodesOf(g, "Skill") : Prop(n, "uri") = u
        edge(u)  == CHOOSE e \in g.edges :
                        e.from = Prop(o, "uri") /\ e.type = "REQUIRES" /\ e.to = u
        maps == IF suris = <<>>
                THEN <<[uri |-> None, label |-> None,
                        relation_type |-> None, skill_type |-> None]>>
                ELSE [i \in 1..Len(suris) |->
                        [uri |-> suris[i],
                         label |-> Prop(skill(suris[i]), "preferredLabel"),
                         relation_type |-> Prop(edge(suris[i]), "relationType"),
                         skill_type |-> Prop(skill(suris[i]), "skillType")]]
        ng == Max(1, Cardinality(Out(g, o, {"IN_OCC_GROUP"}, "OccupationGroup")))
        nc == Max(1, Cardinality(Out(g, o, {"IN_SCHEME"}, "ConceptScheme")))
    IN  [i \in 1..(Len(maps) * ng * nc) |-> maps[((i - 1) \div (ng * nc)) + 1]]

\* ORDER BY o.preferredLabel
RECURSIVE OrderByLabel(_)
OrderByLabel(S) ==
    IF S = {} THEN <<>>
    ELSE LET least == CHOOSE x \in S : \A y \in S :
                         \/ x = y
                         \/ StrLess(Prop(x, "preferredLabel"), Prop(y, "preferredLabel"))
                         \/ /\ Prop(x, "preferredLabel") = Prop(y, "preferredLabel")
                            /\ StrLess(Prop(x, "uri"), Prop(y, "uri"))
         IN  <<least>> \o OrderByLabel(S \ {least})

_fetch_occupations_with_skills(g, occupation_uris_, occupation_groups, schemes) ==
    LET group_codes == IF Truthy(occupation_groups)
                       THEN [i \in 1..Len(occupation_groups) |-> SplitLastC(occupation_groups[i])]
                       ELSE <<>>
        matched == {o \in NodesOf(g, "Occupation") :
                       /\ Prop(o, "uri") \in Range(occupation_uris_)
                       /\ Truthy(occupation_groups) =>
                              GroupClause(g, o, occupation_groups, group_codes)
                       /\ Truthy(schemes) => SchemeClause(g, o, schemes)}
        results == OrderByLabel(matched)
    IN  [i \in 1..Len(results) |->
            [uri   |-> Prop(results[i], "uri"),
             label |-> Prop(results[i], "preferredLabel"),
             required_skills |->
                 SelectSeq(CollectDistinct(SkillRows(g, results[i])),
                           LAMBDA sk : sk.uri # None)]]

\* the default of scores_map.get for every uri
ScoreOf_AlwaysDefault(faiss_results_, uri) == 0

\* scores_map.get(uri, 0.0): a dict comprehension keeps the last score of a uri
ScoreOf(faiss_results_, uri) ==
    LET at == {i \in 1..Len(faiss_results_) : faiss_results_[i].uri = uri}
    IN  IF at = {} THEN 0
        ELSE faiss_results_[CHOOSE i \in at : \A j \in at : j <= i].score

\* an occupation that requires nothing counted as fully matched
MatchPercentage_EmptyIsFull(matched_uris, required_skill_uris) ==
    IF required_skill_uris # {}
    THEN [num |-> Cardinality(matched_uris) * 100, den |-> Cardinality(required_skill_uris)]
    ELSE [num |-> 100, den |-> 1]

\* the share of the required skills the user lacks
MatchPercentage_OfMissing(matched_uris, required_skill_uris) ==
    IF required_skill_uris # {}
    THEN [num |-> (Cardinality(required_skill_uris) - Cardinality(matched_uris)) * 100,
          den |-> Cardinality(required_skill_uris)]
    ELSE [num |-> 0, den |-> 1]

\* len(matched_uris) / len(required_skill_uris) * 100, as the fraction num/den
MatchPercentage(matched_uris, required_skill_uris) ==
    IF required_skill_uris # {}
    THEN [num |-> Cardinality(matched_uris) * 100, den |-> Cardinality(required_skill_uris)]
    ELSE [num |-> 0, den |-> 1]

\* step 5 for one occupation
Enrich(occ, faiss_results_, skill_uris) ==
    LET required_skill_uris == {sk.uri : sk \in Range(occ.required_skills)}
        user_skill_set == Range(skill_uris)
        matched_uris == required_skill_uris \cap user_skill_set
        missing_uris == required_skill_uris \ user_skill_set
    IN  [uri |-> occ.uri,
         label |-> occ.label,
         required_skills |-> occ.required_skills,
         similarity_score |-> ScoreOf(faiss_results_, occ.uri),
         matched_skills |-> SelectSeq(occ.required_skills, LAMBDA sk : sk.uri \in matched_uris),
         missing_skills |-> SelectSeq(occ.required_skills, LAMBDA sk : sk.uri \in missing_uris),
         match_percentage |-> MatchPercentage(matched_uris, required_skill_uris)]

\* list.sort(key=similarity_score, reverse=True): stable, highest first
RECURSIVE InsertByScore(_, _)
InsertByScore(sorted, x) ==
    IF sorted = <<>> THEN <<x>>
    ELSE IF sorted[Len(sorted)].similarity_score >= x.similarity_score
         THEN Append(sorted, x)
         ELSE Append(InsertByScore(SubSeq(sorted, 1, Len(sorted) - 1), x), sorted[Len(sorted)])

\* the list left in the order of the query
SortByScoreDesc_Unsorted(list) == list

RECURSIVE SortByScoreDesc(_)
SortByScoreDesc(list) ==
    IF list = <<>> THEN <<>>
    ELSE InsertByScore(SortByScoreDesc(SubSeq(list, 1, Len(list) - 1)), list[Len(list)])

\* the whole list
Truncate_NoLimit(list, limit) == list

\* enriched[:limit - 1]
Truncate_OneShort(list, limit) == SubSeq(list, 1, Min(Len(list), Max(limit - 1, 0)))

\* enriched[:limit]
Truncate(list, limit) == SubSeq(list, 1, Min(Len(list), Max(limit, 0)))

\* no over-fetch
FaissLimit_NoOverFetch(occupation_groups, schemes, limit) == limit

\* faiss_limit of step 3
FaissLimit(occupation_groups, schemes, limit) ==
    IF Truthy(occupation_groups) \/ Truthy(schemes) THEN limit * OverFetchFactor ELSE limit

\* what a call of the repo did: its value or exception, and its downstream calls
RepoRun(e, raised, value, queries, encodes, topks, cands, fetch) ==
    [eng |-> e, raised |-> raised, value |-> value, graph_queries |-> queries,
     encode_inputs |-> encodes, search_top_k |-> topks,
     faiss_results |-> cands, fetched |-> fetch]

\* RecommendationsRepo.get_recommendations; fault names the run_query that fails
RepoGetRecommendations(g, e, a, skill_uris, occupation_groups, schemes, limit, fault) ==
    IF skill_uris = <<>> \/ skill_uris = NoList
    THEN RepoRun(e, FALSE, <<>>, 0, <<>>, <<>>, <<>>, <<>>)
    ELSE IF fault = "labels"
    THEN RepoRun(e, TRUE, <<>>, 1, <<>>, <<>>, <<>>, <<>>)
    ELSE
    LET skill_labels  == _get_skill_labels(g, skill_uris)
        combined_text == JoinSpace(skill_labels)
        enc           == encode(e, a, <<combined_text>>)
    IN  IF enc.raised
        THEN RepoRun(enc.eng, TRUE, <<>>, 1, <<<<combined_text>>>>, <<>>, <<>>, <<>>)
        ELSE
        LET query_embedding == enc.value[1]
            faiss_limit == FaissLimit(occupation_groups, schemes, limit)
            srch == search(enc.eng, a, query_embedding, faiss_limit)
        IN  IF srch.raised
            THEN RepoRun(srch.eng, TRUE, <<>>, 1, <<<<combined_text>>>>, <<faiss_limit>>, <<>>, <<>>)
            ELSE IF srch.value = <<>>
            THEN RepoRun(srch.eng, FALSE, <<>>, 1, <<<<combined_text>>>>, <<faiss_limit>>, <<>>, <<>>)
            ELSE IF fault = "fetch"
            THEN RepoRun(srch.eng, TRUE, <<>>, 2, <<<<combined_text>>>>, <<faiss_limit>>,
                         srch.value, <<>>)
            ELSE
            LET candidate_uris == [i \in 1..Len(srch.value) |-> srch.value[i].uri]
                occupations == _fetch_occupations_with_skills(g, candidate_uris,
                                                              occupation_groups, schemes)
                enriched == [i \in 1..Len(occupations) |->
                                Enrich(occupations[i], srch.value, skill_uris)]
            IN  RepoRun(srch.eng, FALSE, Truncate(SortByScoreDesc(enriched), limit), 2,
                        <<<<combined_text>>>>, <<faiss_limit>>, srch.value,
                        [i \in 1..Len(occupations) |-> occupations[i].uri])

(* ------------------------ RecommendationsService ----------------------- *)
Request(skills, occupation_groups, schemes, limit) ==
    [skills |-> skills, occupation_groups |-> occupation_groups,
     schemes |-> schemes, limit |-> limit]

\* SkillMatch(...) of the service: the relation type defaults when it is None
SkillMatch(skill, default) ==
    [uri |-> skill.uri, label |-> skill.label, skill_type |-> skill.skill_type,
     relation_type |-> IF skill.relation_type = None \/ skill.relation_type = <<>>
                       THEN default ELSE skill.relation_type]

\* OccupationRecommendation(...) built from one dict of the repo
OccupationRecommendation(rec_data) ==
    [uri |-> rec_data.uri,
     label |-> rec_data.label,
     similarity_score |-> rec_data.similarity_score,
     match_percentage |-> rec_data.match_percentage,
     matched_skills |-> [i \in 1..Len(rec_data.matched_skills) |->
                            SkillMatch(rec_data.matched_skills[i], <<"essential">>)],
     missing_skills |-> [i \in 1..Len(rec_data.missing_skills) |->
                            SkillMatch(rec_data.missing_skills[i], <<"optional">>)]]

\* the pydantic field constraints of SkillMatch and OccupationRecommendation
SchemaAccepts(rec) ==
    /\ rec.label # None
    /\ rec.similarity_score >= 0 /\ rec.similarity_score <= ScoreDen
    /\ rec.match_percentage.num >= 0
    /\ rec.match_percentage.num <= 100 * rec.match_percentage.den
    /\ \A sk \in Range(rec.matched_skills) \cup Range(rec.missing_skills) : sk.label # None

\* the upper bound of limit left unchecked
ValidationFails_NoUpperBound(req) ==
    \/ req.skills = NoList \/ Len(req.skills) = 0
    \/ req.limit <= 0

\* the three checks that raise ValueError before the try block
ValidationFails(req) ==
    \/ req.skills = NoList \/ Len(req.skills) = 0
    \/ req.limit <= 0
    \/ req.limit > MaxAllowedLimit

\* RecommendationsService.get_recommendations
ServiceGetRecommendations(g, e, a, req, fault) ==
    IF ValidationFails(req)
    THEN [outcome |-> "ValueError", recommendations |-> <<>>,
          run |-> RepoRun(e, FALSE, <<>>, 0, <<>>, <<>>, <<>>, <<>>)]
    ELSE LET run == RepoGetRecommendations(g, e, a, req.skills, req.occupation_groups,
                                           req.schemes, req.limit, fault)
             recommendations == [i \in 1..Len(run.value) |->
                                    OccupationRecommendation(run.value[i])]
         IN  IF run.raised \/ \E r \in Range(recommendations) : ~SchemaAccepts(r)
             THEN [outcome |-> "RuntimeError", recommendations |-> <<>>, run |-> run]
             ELSE [outcome |-> "ok", recommendations |-> recommendations, run |-> run]

(* ------------------------------ the route ------------------------------ *)
HTTP_200_OK == 200
HTTP_400_BAD_REQUEST == 400
HTTP_500_INTERNAL_SERVER_ERROR == 500
HTTP_503_SERVICE_UNAVAILABLE == 503

Response(status, recommendations, user_skills) ==
    [status |-> status, total |-> Len(recommendations),
     recommendations |-> recommendations, user_skills |-> user_skills]

\* a failure of the service answered as a success
StatusOf_FailureAsSuccess(outcome) ==
    CASE outcome = "ValueError" -> HTTP_400_BAD_REQUEST
      [] OTHER                  -> HTTP_200_OK

\* the except clauses of the route
StatusOf(outcome) ==
    CASE outcome = "ok"         -> HTTP_200_OK
      [] outcome = "ValueError" -> HTTP_400_BAD_REQUEST
      [] OTHER                  -> HTTP_500_INTERNAL_SERVER_ERROR

\* the log of an observed request after one more answer
Observe(log, resp) ==
    [seen |-> log.seen \cup {resp}, times |-> Min(log.times + 1, MaxRepeats)]

\* POST /recommendations: routes/recommendations.py get_recommendations, called
\* with the request object req; fault is the run_query that raises, if any
get_recommendations(req, fault) ==
    \E ready \in {is_ready(Engine(model, faiss_index, occupation_uris), art)} :
        /\ request' = req
        /\ neo4j_fault' = fault
        /\ ready_answers' = ready_answers \cup {ready.value}
        /\ UNCHANGED <<graph, art, last_call, gap_log, sideVars>>
        /\ IF ~ready.value
           THEN /\ model' = ready.eng.model
                /\ faiss_index' = ready.eng.faiss_index
                /\ occupation_uris' = ready.eng.occupation_uris
                /\ response' = Response(HTTP_503_SERVICE_UNAVAILABLE, <<>>, <<>>)
                /\ svc_outcome' = "not called"
                /\ graph_queries' = 0
                /\ encode_inputs' = <<>>
                /\ search_top_k' = <<>>
                /\ faiss_results' = <<>>
                /\ fetched' = <<>>
           ELSE \E svc \in {ServiceGetRecommendations(graph, ready.eng, art, req, fault)} :
                    /\ model' = svc.run.eng.model
                    /\ faiss_index' = svc.run.eng.faiss_index
                    /\ occupation_uris' = svc.run.eng.occupation_uris
                    /\ response' = Response(StatusOf(svc.outcome), svc.recommendations,
                                            IF svc.outcome = "ok" THEN req.skills ELSE <<>>)
                    /\ svc_outcome' = svc.outcome
                    /\ graph_queries' = svc.run.graph_queries
                    /\ encode_inputs' = svc.run.encode_inputs
                    /\ search_top_k' = svc.run.search_top_k
                    /\ faiss_results' = svc.run.faiss_results
                    /\ fetched' = svc.run.fetched
        /\ answers' = IF req \in DOMAIN answers
                       THEN [answers EXCEPT ![req] = Observe(@, response')]
                       ELSE answers

(* --------------------------- initial states ---------------------------- *)
Request_(skills, groups, schemes, limits) ==
    {Request(s, g, c, l) : s \in skills, g \in groups, c \in schemes, l \in limits}

\* the raw ESCO tables: memb maps an occupation to the groups it is filed under,
\* hier is the set of <<narrower, broader>> group pairs, code25 the code column of
\* group C25, inScheme, requires and labels are per occupation
RawData(memb, hier, code25, inScheme, requires, labels) ==
    [occupations |-> {[conceptUri |-> o, preferredLabel |-> labels[o],
                       inScheme |-> inScheme[o]] : o \in OccUris},
     skills |-> {[conceptUri |-> S1, preferredLabel |-> <<"p">>, skillType |-> <<"knowledge">>],
                 [conceptUri |-> S2, preferredLabel |-> <<"q">>, skillType |-> <<"skill">>]},
     relations |-> {[occupationUri |-> p[1], skillUri |-> p[2],
                     relationType |-> IF p[2] = S1 THEN <<"essential">> ELSE <<"optional">>,
                     skillType |-> <<"knowledge">>] :
                        p \in {q \in OccUris \X SkillUris : q[2] \in requires[q[1]]}},
     isco_groups |-> {[conceptUri |-> G2, code |-> <<"2">>, preferredLabel |-> <<"a">>],
                      [conceptUri |-> G25, code |-> code25, preferredLabel |-> <<"b">>],
                      [conceptUri |-> G3, code |-> <<"3">>, preferredLabel |-> <<"c">>]},
     occ_broader |-> {[conceptUri |-> p[1], broaderUri |-> p[2]] :
                        p \in {q \in OccUris \X GroupUris : q[2] \in memb[q[1]]} \cup hier},
     concept_schemes |-> {[conceptSchemeUri |-> Digital, preferredLabel |-> <<"d">>],
                          [conceptSchemeUri |-> Research, preferredLabel |-> <<"r">>]}]

\* the artifacts the offline job wrote: one unit vector per occupation row
Artifacts(angles, index_exists) ==
    [model_ok |-> TRUE, model_dim |-> 1, index_exists |-> index_exists,
     index |-> [d |-> 1, vecs |-> [i \in 1..Len(angles) |-> Vec(1, angles[i], 1)]],
     meta_exists |-> TRUE, meta_has_column |-> TRUE,
     meta_uris |-> <<O1, O2, O3>>]

DefaultMemb == (O1 :> {G25}) @@ (O2 :> {G3}) @@ (O3 :> {})
DefaultHier == {<<G25, G2>>}
DefaultScheme == (O1 :> {Digital, Research}) @@ (O2 :> {Digital}) @@ (O3 :> {})
DefaultRequires == (O1 :> {S1, S2}) @@ (O2 :> {S1}) @@ (O3 :> {})
DefaultLabels == (O1 :> <<"a">>) @@ (O2 :> <<"b">>) @@ (O3 :> <<"c">>)
DefaultAngles == <<0, 1, 2>>

MembChoices == {{}, {G2}, {G25}, {G3}}
HierChoices == {{}, {<<G25, G2>>}, {<<G25, G2>>, <<G3, G25>>}}

Threads == {"t1", "t2"}

InitObserving(observed) ==
    /\ model = Unloaded
    /\ faiss_index = Unloaded
    /\ occupation_uris = NoList
    /\ request = <<>>
    /\ response = <<>>
    /\ svc_outcome = "not called"
    /\ graph_queries = 0
    /\ encode_inputs = <<>>
    /\ search_top_k = <<>>
    /\ faiss_results = <<>>
    /\ fetched = <<>>
    /\ neo4j_fault = "none"
    /\ ready_answers = {}
    /\ last_call = <<>>
    /\ gap_log = <<>>
    /\ pc = [t \in Threads |-> "idle"]
    /\ loads = [model |-> 0, faiss_index |-> 0, occupation_uris |-> 0]
    /\ answers = [r \in observed |-> [seen |-> {}, times |-> 0]]
    /\ notes = [texts |-> <<>>, links |-> {}]
    /\ clients = <<>>
    /\ neo4j_client = 0
    /\ sessions = [opened |-> 0, closed |-> 0]

InitEngine == InitObserving({})

\* group and scheme data vary
InitFilters ==
    /\ InitEngine
    /\ \E m1 \in MembChoices, m2 \in MembChoices, hier \in HierChoices,
          code25 \in {<<"2", "5">>, <<>>}, sch2 \in {{}, {Digital}} :
          graph = load_rich_esco_to_neo4j(
                      RawData((O1 :> m1) @@ (O2 :> m2) @@ (O3 :> {}), hier, code25,
                              (O1 :> {Digital}) @@ (O2 :> sch2) @@ (O3 :> {}),
                              DefaultRequires, DefaultLabels))
    /\ art = Artifacts(DefaultAngles, TRUE)

\* index vectors and occupation labels vary
InitRanking ==
    /\ InitEngine
    /\ \E labels \in {DefaultLabels, (O1 :> <<"c">>) @@ (O2 :> <<"b">>) @@ (O3 :> <<"a">>)} :
          graph = load_rich_esco_to_neo4j(
                      RawData(DefaultMemb, DefaultHier, <<"2", "5">>, DefaultScheme,
                              DefaultRequires, labels))
    /\ \E angles \in [1..3 -> 0..MaxAngle] : art = Artifacts(angles, TRUE)

\* required skills vary
InitSkills ==
    /\ InitEngine
    /\ \E requires \in [OccUris -> SUBSET SkillUris] :
          graph = load_rich_esco_to_neo4j(
                      RawData(DefaultMemb, DefaultHier, <<"2", "5">>, DefaultScheme,
                              requires, DefaultLabels))
    /\ art = Artifacts(DefaultAngles, TRUE)

\* filters over varying group and scheme data
FilterRequests ==
    Request_({<<S1>>}, {NoList, <<>>, <<G2>>, <<G25>>, <<G3>>, <<GEmpty>>, <<GBare>>},
             {NoList, <<Digital>>}, 1..MaxLimit)

NextFilters == \E req \in FilterRequests : get_recommendations(req, "none")

SpecFilters == InitFilters /\ [][NextFilters]_vars

\* ranking over varying index vectors and labels
RankingRequests ==
    Request_({<<S1>>, <<S1, S2>>}, {NoList, <<GEmpty>>}, {NoList}, 1..MaxLimit)

NextRanking == \E req \in RankingRequests : get_recommendations(req, "none")

SpecRanking == InitRanking /\ [][NextRanking]_vars

\* skill gaps over varying required skills
SkillRequests ==
    Request_({<<S1>>, <<S2>>, <<S1, S2>>, <<SX>>, <<S2, S2>>, <<SX, S1>>, <<S2, S1>>},
             {NoList, <<GEmpty>>},
             {NoList}, 1..MaxLimit)

NextSkills == \E req \in SkillRequests : get_recommendations(req, "none")

SpecSkills == InitSkills /\ [][NextSkills]_vars

\* validation, readiness and GraphStore failures
Limits == {-1, 0} \cup (1..MaxLimit) \cup {MaxAllowedLimit, MaxAllowedLimit + 1}

ServiceRequests ==
    Request_({NoList, <<>>, <<S1>>, <<SX>>}, {NoList, <<>>, <<G3>>}, {NoList, <<Research>>}, Limits)

NextService ==
    \E req \in ServiceRequests, fault \in {"none", "labels", "fetch"} :
        get_recommendations(req, fault)

InitService ==
    /\ InitEngine
    /\ graph = load_rich_esco_to_neo4j(
                   RawData(DefaultMemb, DefaultHier, <<"2", "5">>, DefaultScheme,
                           DefaultRequires, DefaultLabels))
    /\ \E index_exists \in BOOLEAN : art = Artifacts(DefaultAngles, index_exists)

SpecService == InitService /\ [][NextService]_vars

(* ---------------------- direct calls of the engine --------------------- *)
EngineCall(op, query, top_k, raised, value) ==
    [op |-> op, query |-> query, top_k |-> top_k, raised |-> raised, value |-> value]

\* ml_engine.is_ready()
call_is_ready ==
    \E r \in {is_ready(Engine(model, faiss_index, occupation_uris), art)} :
        /\ model' = r.eng.model
        /\ faiss_index' = r.eng.faiss_index
        /\ occupation_uris' = r.eng.occupation_uris
        /\ ready_answers' = ready_answers \cup {r.value}
        /\ last_call' = EngineCall("is_ready", <<>>, 0, FALSE, <<r.value>>)
        /\ UNCHANGED <<graph, art, request, response, svc_outcome, graph_queries,
                       encode_inputs, search_top_k, faiss_results, fetched,
                       neo4j_fault, gap_log, answers, sideVars>>

\* ml_engine.encode(texts)
call_encode(texts) ==
    \E r \in {encode(Engine(model, faiss_index, occupation_uris), art, texts)} :
        /\ model' = r.eng.model
        /\ faiss_index' = r.eng.faiss_index
        /\ occupation_uris' = r.eng.occupation_uris
        /\ last_call' = EngineCall("encode", <<>>, 0, r.raised, r.value)
        /\ UNCHANGED <<graph, art, request, response, svc_outcome, graph_queries,
                       encode_inputs, search_top_k, faiss_results, fetched,
                       neo4j_fault, ready_answers, gap_log, answers, sideVars>>

\* ml_engine.search(query_embedding, top_k)
call_search(query_embedding, top_k) ==
    \E r \in {search(Engine(model, faiss_index, occupation_uris), art,
                     query_embedding, top_k)} :
        /\ model' = r.eng.model
        /\ faiss_index' = r.eng.faiss_index
        /\ occupation_uris' = r.eng.occupation_uris
        /\ last_call' = EngineCall("search", query_embedding, top_k, r.raised, r.value)
        /\ UNCHANGED <<graph, art, request, response, svc_outcome, graph_queries,
                       encode_inputs, search_top_k, faiss_results, fetched,
                       neo4j_fault, ready_answers, gap_log, answers, sideVars>>

\* the artifacts on disk, sound or defective: the model, the index file of
\* dimension d with one unit vector per angle, and the metadata CSV
ArtifactsOf(model_ok, index_exists, d, angles, meta_exists, meta_has_column, meta_uris) ==
    [model_ok |-> model_ok, model_dim |-> 1, index_exists |-> index_exists,
     index |-> [d |-> d, vecs |-> [i \in 1..Len(angles) |-> Vec(d, angles[i], 1)]],
     meta_exists |-> meta_exists, meta_has_column |-> meta_has_column,
     meta_uris |-> meta_uris]

EngineArtifacts ==
    {ArtifactsOf(TRUE,  TRUE,  1, DefaultAngles, TRUE,  TRUE,  <<O1, O2, O3>>),
     ArtifactsOf(FALSE, TRUE,  1, DefaultAngles, TRUE,  TRUE,  <<O1, O2, O3>>),
     ArtifactsOf(TRUE,  FALSE, 1, DefaultAngles, TRUE,  TRUE,  <<O1, O2, O3>>),
     ArtifactsOf(TRUE,  TRUE,  2, DefaultAngles, TRUE,  TRUE,  <<O1, O2, O3>>),
     ArtifactsOf(TRUE,  TRUE,  2, <<>>,          TRUE,  TRUE,  <<O1, O2, O3>>),
     ArtifactsOf(TRUE,  TRUE,  1, DefaultAngles, FALSE, TRUE,  <<O1, O2, O3>>),
     ArtifactsOf(TRUE,  TRUE,  1, DefaultAngles, TRUE,  FALSE, <<O1, O2, O3>>),
     ArtifactsOf(TRUE,  TRUE,  1, DefaultAngles, TRUE,  TRUE,  <<O1, O2>>),
     ArtifactsOf(TRUE,  TRUE,  1, <<0, 1>>,      TRUE,  TRUE,  <<O1, O2, O3>>),
     ArtifactsOf(TRUE,  TRUE,  1, <<>>,          TRUE,  TRUE,  <<>>)}

InitEngineCalls ==
    /\ InitEngine
    /\ graph = load_rich_esco_to_neo4j(
                   RawData(DefaultMemb, DefaultHier, <<"2", "5">>, DefaultScheme,
                           DefaultRequires, DefaultLabels))
    /\ art \in EngineArtifacts

EngineQueries == {Vec(d, angle, 1) : d \in {1, 2}, angle \in {0, MaxAngle}}
EngineTopK == {1, MaxLimit, 4}
EngineRequests == Request_({<<S1>>}, {NoList}, {NoList}, 1..MaxLimit)

NextEngineCalls ==
    \/ call_is_ready
    \/ \E texts \in {<<<<"p">>>>, <<<<"p">>, <<"q", "s">>>>} : call_encode(texts)
    \/ \E q \in EngineQueries, top_k \in EngineTopK : call_search(q, top_k)
    \/ \E req \in EngineRequests : get_recommendations(req, "none")

SpecEngine == InitEngineCalls /\ [][NextEngineCalls]_vars

\* step 5 of RecommendationsRepo.get_recommendations applied to occupation O1 as
\* the graph returns it, for the user skills skill_uris
skill_gap(skill_uris) ==
    \E occ \in Range(_fetch_occupations_with_skills(graph, <<O1>>, NoList, NoList)) :
        \E rec \in {Enrich(occ, <<[uri |-> O1, score |-> ScoreDen]>>, skill_uris)} :
            /\ gap_log' = (skill_uris :> rec.match_percentage) @@ gap_log
            /\ UNCHANGED <<graph, art, model, faiss_index, occupation_uris, request,
                           response, svc_outcome, graph_queries, encode_inputs,
                           search_top_k, faiss_results, fetched, neo4j_fault,
                           ready_answers, last_call, answers, sideVars>>

\* the required skills of O1 vary
InitGap ==
    /\ InitEngine
    /\ \E required \in SUBSET SkillUris :
          graph = load_rich_esco_to_neo4j(
                      RawData(DefaultMemb, DefaultHier, <<"2", "5">>, DefaultScheme,
                              (O1 :> required) @@ DefaultRequires, DefaultLabels))
    /\ art = Artifacts(DefaultAngles, TRUE)

GapSkillLists ==
    {<<>>, <<S1>>, <<S2>>, <<SX>>, <<S1, S2>>, <<S2, SX>>, <<S2, S1, SX>>}

NextGap == \E skill_uris \in GapSkillLists : skill_gap(skill_uris)

SpecGap == InitGap /\ [][NextGap]_vars

(* ------------- is_ready() on worker threads, statement by statement ---- *)
\* the route is a plain def, which the server runs on a pool of worker threads
handlerVars == <<request, response, svc_outcome, graph_queries, encode_inputs,
                 search_top_k, faiss_results, fetched, neo4j_fault, gap_log, answers>>
clientVars == <<clients, neo4j_client, sessions>>

Goto(t, position) == pc' = [pc EXCEPT ![t] = position]
Assigned(resource) == loads' = [loads EXCEPT ![resource] = @ + 1]

\* is_ready() entered: the test of line 49 of _load_resources
t_begin(t) ==
    /\ pc[t] = "idle"
    /\ loads.model < MaxLoads /\ loads.faiss_index < MaxLoads
    /\ loads.occupation_uris < MaxLoads
    /\ IF faiss_index # Unloaded /\ model # Unloaded
       THEN Goto(t, "loaded")
       ELSE Goto(t, "model")
    /\ UNCHANGED <<graph, art, model, faiss_index, occupation_uris, ready_answers,
                   loads, last_call, notes, handlerVars, clientVars>>

\* self.model = SentenceTransformer(model_name)
t_load_model(t) ==
    /\ pc[t] = "model"
    /\ IF art.model_ok
       THEN /\ model' = [dim |-> art.model_dim]
            /\ Assigned("model")
            /\ Goto(t, "index")
       ELSE /\ Goto(t, "raised")
            /\ UNCHANGED <<model, loads>>
    /\ UNCHANGED <<graph, art, faiss_index, occupation_uris, ready_answers,
                   last_call, notes, handlerVars, clientVars>>

\* self.faiss_index = faiss.read_index(...), then the comparison of the dimensions
t_load_index(t) ==
    /\ pc[t] = "index"
    /\ IF ~art.index_exists
       THEN /\ Goto(t, "raised")
            /\ UNCHANGED <<faiss_index, loads>>
       ELSE /\ faiss_index' = art.index
            /\ Assigned("faiss_index")
            /\ IF art.model_dim # art.index.d
               THEN Goto(t, "raised")
               ELSE Goto(t, "metadata")
    /\ UNCHANGED <<graph, art, model, occupation_uris, ready_answers,
                   last_call, notes, handlerVars, clientVars>>

\* self.occupation_uris = metadata_df["occupation_uri"].tolist()
t_load_metadata(t) ==
    /\ pc[t] = "metadata"
    /\ IF ~art.meta_exists \/ ~art.meta_has_column
       THEN /\ Goto(t, "raised")
            /\ UNCHANGED <<occupation_uris, loads>>
       ELSE /\ occupation_uris' = art.meta_uris
            /\ Assigned("occupation_uris")
            /\ Goto(t, "loaded")
    /\ UNCHANGED <<graph, art, model, faiss_index, ready_answers,
                   last_call, notes, handlerVars, clientVars>>

\* is_ready() returns: the conjunction of line 213, or False from the except
t_return(t) ==
    /\ pc[t] \in {"loaded", "raised"}
    /\ ready_answers' = ready_answers \cup
           {/\ pc[t] = "loaded"
            /\ faiss_index # Unloaded /\ model # Unloaded /\ occupation_uris # NoList}
    /\ Goto(t, "idle")
    /\ UNCHANGED <<graph, art, model, faiss_index, occupation_uris, loads,
                   last_call, notes, handlerVars, clientVars>>

NextThreads ==
    \E t \in Threads :
        \/ t_begin(t)
        \/ t_load_model(t)
        \/ t_load_index(t)
        \/ t_load_metadata(t)
        \/ t_return(t)

SpecThreads == InitEngineCalls /\ [][NextThreads]_vars

(* ----------------------- repeated identical requests ------------------- *)
IdemRequests == Request_({<<S1>>}, {NoList, <<G3>>}, {NoList}, {1, MaxLimit})

InitIdem ==
    /\ InitObserving(IdemRequests)
    /\ graph = load_rich_esco_to_neo4j(
                   RawData(DefaultMemb, DefaultHier, <<"2", "5">>, DefaultScheme,
                           DefaultRequires, DefaultLabels))
    /\ \E index_exists \in BOOLEAN, angles \in {DefaultAngles, <<MaxAngle, 0, 0>>} :
          art = Artifacts(angles, index_exists)

NextIdem == \E req \in IdemRequests : get_recommendations(req, "none")

SpecIdem == InitIdem /\ [][NextIdem]_vars

(* ------------------- artifacts put in place afterwards ----------------- *)
\* the offline job is run (again): every artifact is written, whole and consistent
restore_artifacts ==
    /\ art # ArtifactsOf(TRUE, TRUE, 1, DefaultAngles, TRUE, TRUE, <<O1, O2, O3>>)
    /\ art' = ArtifactsOf(TRUE, TRUE, 1, DefaultAngles, TRUE, TRUE, <<O1, O2, O3>>)
    /\ last_call' = EngineCall("restore_artifacts", <<>>, 0, FALSE, <<>>)
    /\ UNCHANGED <<graph, model, faiss_index, occupation_uris, ready_answers,
                   pc, loads, notes, handlerVars, clientVars>>

NextRetry ==
    \/ NextEngineCalls
    \/ restore_artifacts

SpecRetry == InitEngineCalls /\ [][NextRetry]_vars

(* -------------------------------- notes -------------------------------- *)
HTTP_404_NOT_FOUND == 404

\* str.strip() for blanks
RECURSIVE Strip(_)
Strip(text) ==
    IF text = <<>> THEN <<>>
    ELSE IF Head(text) = " " THEN Strip(Tail(text))
    ELSE IF text[Len(text)] = " " THEN Strip(SubSeq(text, 1, Len(text) - 1))
    ELSE text

NoteStore(texts, links) == [texts |-> texts, links |-> links]

\* NotesRepo.upsert_note: the store after the query and the rows it returns
\* (the method returns results[0] if results else None)
RepoUpsertNote(g, store, occupation_uri, note_id, text) ==
    IF \E o \in NodesOf(g, "Occupation") : Prop(o, "uri") = occupation_uri
    THEN [store |-> NoteStore((note_id :> text) @@ store.texts,
                              store.links \cup {<<occupation_uri, note_id>>}),
          rows |-> <<[occupationUri |-> occupation_uri, noteId |-> note_id,
                      text |-> text]>>]
    ELSE [store |-> store, rows |-> <<>>]

\* NotesService.create_or_update_note; failed: run_query raises
ServiceUpsertNote(g, store, occupation_uri, note_id, text, failed) ==
    IF text = <<>> \/ Strip(text) = <<>>
    THEN [store |-> store, status |-> HTTP_400_BAD_REQUEST, value |-> <<>>]
    ELSE IF failed
    THEN [store |-> store, status |-> HTTP_500_INTERNAL_SERVER_ERROR, value |-> <<>>]
    ELSE LET r == RepoUpsertNote(g, store, occupation_uri, note_id, Strip(text))
         IN  IF Len(r.rows) = 0
             THEN [store |-> r.store, status |-> HTTP_404_NOT_FOUND, value |-> <<>>]
             ELSE [store |-> r.store, status |-> HTTP_200_OK, value |-> <<r.rows[1]>>]

\* the query of NotesRepo.delete_note: the store after it and the rows it returns
DeleteNoteQuery(g, store, occupation_uri, note_id) ==
    IF /\ \E o \in NodesOf(g, "Occupation") : Prop(o, "uri") = occupation_uri
       /\ <<occupation_uri, note_id>> \in store.links
    THEN LET otherLinks == Cardinality({l \in store.links :
                                           l[2] = note_id /\ l[1] # occupation_uri})
             links == store.links \ {<<occupation_uri, note_id>>}
         IN  IF otherLinks = 0
             THEN [store |-> NoteStore([id \in DOMAIN store.texts \ {note_id} |->
                                           store.texts[id]], links),
                   rows |-> <<[deleted |-> 1]>>]
             ELSE [store |-> NoteStore(store.texts, links), rows |-> <<>>]
    ELSE [store |-> store, rows |-> <<>>]

\* NotesRepo.delete_note: results and len(results) > 0, False from the except
RepoDeleteNote(g, store, occupation_uri, note_id, failed) ==
    IF failed
    THEN [store |-> store, value |-> FALSE]
    ELSE LET q == DeleteNoteQuery(g, store, occupation_uri, note_id)
         IN  [store |-> q.store, value |-> Len(q.rows) > 0]

\* NotesService.delete_note
ServiceDeleteNote(g, store, occupation_uri, note_id, failed) ==
    LET r == RepoDeleteNote(g, store, occupation_uri, note_id, failed)
    IN  IF ~r.value
        THEN [store |-> r.store, status |-> HTTP_404_NOT_FOUND, value |-> r.value]
        ELSE [store |-> r.store, status |-> HTTP_200_OK, value |-> r.value]

NoteCall(op, occupation_uri, note_id, failed, status, value, before) ==
    [op |-> op, occupation_uri |-> occupation_uri, note_id |-> note_id,
     failed |-> failed, status |-> status, value |-> value, before |-> before]

\* PUT /notes/admin/occupations/{occupation_uri}/notes/{note_id}
upsert_note(occupation_uri, note_id, text, failed) ==
    \E r \in {ServiceUpsertNote(graph, notes, occupation_uri, note_id, text, failed)} :
        /\ notes' = r.store
        /\ last_call' = NoteCall("upsert_note", occupation_uri, note_id, failed,
                                 r.status, r.value, notes)
        /\ UNCHANGED <<graph, art, model, faiss_index, occupation_uris, ready_answers,
                       pc, loads, handlerVars, clientVars>>

\* DELETE /notes/admin/occupations/{occupation_uri}/notes/{note_id}
delete_note(occupation_uri, note_id, failed) ==
    \E r \in {ServiceDeleteNote(graph, notes, occupation_uri, note_id, failed)} :
        /\ notes' = r.store
        /\ last_call' = NoteCall("delete_note", occupation_uri, note_id, failed,
                                 r.status, r.value, notes)
        /\ UNCHANGED <<graph, art, model, faiss_index, occupation_uris, ready_answers,
                       pc, loads, handlerVars, clientVars>>

OX == <<"o", "9">>
NoteOccupations == {O1, O2, OX}
NoteIds == {<<"n", "1">>, <<"n", "2">>}
NoteTexts == {<<"a">>, <<"b", " ">>, <<" ">>}

NextNotes ==
    \/ \E o \in NoteOccupations, n \in NoteIds, text \in NoteTexts, failed \in BOOLEAN :
          upsert_note(o, n, text, failed)
    \/ \E o \in NoteOccupations, n \in NoteIds, failed \in BOOLEAN :
          delete_note(o, n, failed)

SpecNotes == InitService /\ [][NextNotes]_vars

(* ------------------------- graph skill-gap route ------------------------ *)
\* "http://data.europa.eu/esco/occupation/", in the alphabet of the model's uris
EscoOccupationPrefix == <<"o">>

\* the networkx graph of the ESCO tables: occupation and skill nodes with their
\* preferredLabel, one edge per occupation-skill relation carrying 'relation'
build_esco_graph(g) ==
    [nodes |-> {[uri |-> Prop(n, "uri"), preferredLabel |-> Prop(n, "preferredLabel")] :
                   n \in NodesOf(g, "Occupation") \cup NodesOf(g, "Skill")},
     edges |-> {[source |-> e.from, target |-> e.to, relation |-> e.props.relation] :
                   e \in {x \in g.edges : x.type = "REQUIRES"}}]

\* the try block of get_skill_gap_graph: what it raises or returns
SkillGapTry(esco_graph, occupation_uri, traversal_fails) ==
    IF ~StartsWith(occupation_uri, EscoOccupationPrefix)
    THEN [raised |-> "HTTPException", status |-> HTTP_400_BAD_REQUEST, value |-> <<>>]
    ELSE IF occupation_uri \notin {n.uri : n \in esco_graph.nodes}
    THEN [raised |-> "HTTPException", status |-> HTTP_404_NOT_FOUND, value |-> <<>>]
    ELSE IF traversal_fails
    THEN [raised |-> "Exception", status |-> 0, value |-> <<>>]
    ELSE LET skills(relation) ==
                 {[uri |-> e.target,
                   label |-> (CHOOSE n \in esco_graph.nodes : n.uri = e.target).preferredLabel,
                   type |-> relation] :
                     e \in {x \in esco_graph.edges :
                               /\ x.source = occupation_uri
                               /\ x.relation = relation
                               /\ x.target \in {n.uri : n \in esco_graph.nodes}}}
         IN  [raised |-> "", status |-> HTTP_200_OK,
              value |-> <<[essential_skills |-> skills(<<"essential">>),
                           optional_skills |-> skills(<<"optional">>)]>>]

\* the handler with its dependency: 503 from get_esco_graph when no graph is
\* loaded; every exception of the try block, HTTPException included, is caught
\* by `except Exception` and raised again as 500
SkillGapAnswer(esco_graph, loaded, occupation_uri, traversal_fails) ==
    IF ~loaded
    THEN [status |-> HTTP_503_SERVICE_UNAVAILABLE, value |-> <<>>]
    ELSE LET r == SkillGapTry(esco_graph, occupation_uri, traversal_fails)
         IN  IF r.raised # ""
             THEN [status |-> HTTP_500_INTERNAL_SERVER_ERROR, value |-> <<>>]
             ELSE [status |-> r.status, value |-> r.value]

\* GET /graph/skill-gap/{occupation_uri}
get_skill_gap_graph(occupation_uri, loaded, traversal_fails) ==
    \E r \in {SkillGapAnswer(build_esco_graph(graph), loaded, occupation_uri,
                                traversal_fails)} :
        /\ last_call' = [op |-> "get_skill_gap_graph", occupation_uri |-> occupation_uri,
                         loaded |-> loaded, traversal_fails |-> traversal_fails,
                         status |-> r.status, value |-> r.value]
        /\ UNCHANGED <<graph, art, model, faiss_index, occupation_uris, ready_answers,
                       handlerVars, sideVars>>

SkillGapUris == {O1, O2, OX, S1, SX, <<>>}

NextGraphApi ==
    \E occupation_uri \in SkillGapUris, loaded \in BOOLEAN, traversal_fails \in BOOLEAN :
        get_skill_gap_graph(occupation_uri, loaded, traversal_fails)

SpecGraphApi == InitSkills /\ [][NextGraphApi]_vars

(* ------------------- legacy POST /recommendations (main.py) ------------- *)
\* the column names of occupation_metadata.csv: as the endpoint reads them, and
\* as the embedding pipeline writes them
LegacyColumns == <<"conceptUri", "preferredLabel">>
PipelineColumns == <<"occupation_uri", "occupation_label">>

\* the artifacts with the header of the metadata CSV
ArtifactsWithHeader(d, angles, meta_uris, columns) ==
    [meta_columns |-> columns]
        @@ ArtifactsOf(TRUE, TRUE, d, angles, TRUE, "occupation_uri" \in Range(columns),
                       meta_uris)

\* the assets lifespan() loads at startup: model, index and the metadata frame
lifespan(a) ==
    IF ~a.model_ok \/ ~a.index_exists \/ ~a.meta_exists
    THEN [raised |-> TRUE, model |-> Unloaded, faiss_index |-> Unloaded,
          metadata_df |-> Unloaded]
    ELSE [raised |-> FALSE, model |-> [dim |-> a.model_dim], faiss_index |-> a.index,
          metadata_df |->
              [i \in 1..Len(a.meta_uris) |->
                  (a.meta_columns[1] :> a.meta_uris[i])
                      @@ (a.meta_columns[2] :> DefaultLabels[a.meta_uris[i]])]]

\* ". ".join(skill_input)
RECURSIVE JoinSkills(_)
JoinSkills(skill_input) ==
    IF skill_input = <<>> THEN <<>>
    ELSE IF Len(skill_input) = 1 THEN skill_input[1]
    ELSE skill_input[1] \o <<".", " ">> \o JoinSkills(Tail(skill_input))

\* metadata_df.iloc[index_id]: a negative position counts from the end, a
\* position outside -len..len-1 raises IndexError
Iloc(metadata_df, index_id) ==
    IF index_id >= Len(metadata_df) \/ index_id < -Len(metadata_df)
    THEN [raised |-> TRUE, row |-> <<>>]
    ELSE [raised |-> FALSE,
          row |-> <<metadata_df[IF index_id < 0 THEN Len(metadata_df) + index_id + 1
                                ELSE index_id + 1]>>]

\* the distance faiss reports for a slot it could not fill stands for the
\* largest float
LegacyDistance(hit) == IF hit.idx < 0 THEN 1000 ELSE hit.distance

\* the loop of the handler over the ids and distances of the search
RECURSIVE LegacyMapHits(_, _)
LegacyMapHits(metadata_df, hits) ==
    IF hits = <<>> THEN [raised |-> FALSE, recommendations |-> <<>>]
    ELSE LET job_metadata == Iloc(metadata_df, hits[1].idx)
         IN  IF job_metadata.raised
             THEN [raised |-> TRUE, recommendations |-> <<>>]
             ELSE IF \E c \in Range(LegacyColumns) : c \notin DOMAIN job_metadata.row[1]
             THEN [raised |-> TRUE, recommendations |-> <<>>]
             ELSE LET rest == LegacyMapHits(metadata_df, Tail(hits))
                  IN  IF rest.raised
                      THEN rest
                      ELSE [raised |-> FALSE,
                            recommendations |->
                                <<[job_title |-> job_metadata.row[1]["preferredLabel"],
                                   esco_uri |-> job_metadata.row[1]["conceptUri"],
                                   similarity_score |->
                                       [num |-> 1,
                                        den |-> 1 + LegacyDistance(hits[1])]]>>
                                    \o rest.recommendations]

\* get_recommendations of main.py on the assets loaded at startup: the status
\* answered, the recommendations and the ids the index returned
LegacyRecommendations(assets, skill_input, top_k) ==
    IF \/ assets.faiss_index = Unloaded
       \/ assets.metadata_df = Unloaded
       \/ assets.model = Unloaded
    THEN [status |-> HTTP_503_SERVICE_UNAVAILABLE, recommendations |-> <<>>,
          hits |-> <<>>]
    ELSE LET user_embedding == ModelEncode(assets.model.dim, JoinSkills(skill_input))
         IN  IF user_embedding.dim # assets.faiss_index.d
             THEN [status |-> HTTP_500_INTERNAL_SERVER_ERROR, recommendations |-> <<>>,
                   hits |-> <<>>]
             ELSE LET hits == IndexSearch(assets.faiss_index, user_embedding, top_k)
                      r == LegacyMapHits(assets.metadata_df, hits)
                  IN  IF r.raised
                      THEN [status |-> HTTP_500_INTERNAL_SERVER_ERROR,
                            recommendations |-> <<>>, hits |-> hits]
                      ELSE [status |-> HTTP_200_OK,
                            recommendations |-> r.recommendations, hits |-> hits]

\* POST /recommendations of main.py, served once the startup has succeeded
legacy_get_recommendations(skill_input, top_k) ==
    /\ ~lifespan(art).raised
    /\ \E r \in {LegacyRecommendations(lifespan(art), skill_input, top_k)} :
          last_call' = [op |-> "legacy_get_recommendations", skill_input |-> skill_input,
                        top_k |-> top_k, status |-> r.status,
                        recommendations |-> r.recommendations, hits |-> r.hits]
    /\ UNCHANGED <<graph, art, model, faiss_index, occupation_uris, ready_answers,
                   handlerVars, sideVars>>

LegacyArtifacts ==
    {ArtifactsWithHeader(d, angles, meta_uris, columns) :
        d \in {1, 2},
        angles \in {DefaultAngles, <<0, 1>>, <<>>},
        meta_uris \in {<<O1, O2, O3>>, <<O1, O2>>, <<>>},
        columns \in {LegacyColumns, PipelineColumns}}

InitLegacy ==
    /\ InitEngine
    /\ graph = load_rich_esco_to_neo4j(
                   RawData(DefaultMemb, DefaultHier, <<"2", "5">>, DefaultScheme,
                           DefaultRequires, DefaultLabels))
    /\ art \in LegacyArtifacts

LegacySkillInputs == {<<>>, <<<<"p">>>>, <<<<"q">>>>, <<<<"p">>, <<"q">>>>}

NextLegacy ==
    \E skill_input \in LegacySkillInputs, top_k \in EngineTopK :
        legacy_get_recommendations(skill_input, top_k)

SpecLegacy == InitLegacy /\ [][NextLegacy]_vars

(* ----------------------------- Neo4jClient ------------------------------ *)
\* Neo4jClient.__init__: no driver (0 for None); the drivers the object has
\* created and closed are counted, _driver is the number of the open one
NewClient == [_driver |-> 0, created |-> 0, closed |-> 0]

\* Neo4jClient.connect
connect(client) ==
    IF client._driver = 0
    THEN [client EXCEPT !._driver = client.created + 1, !.created = client.created + 1]
    ELSE client

\* Neo4jClient.close
close(client) ==
    IF client._driver # 0
    THEN [client EXCEPT !._driver = 0, !.closed = client.closed + 1]
    ELSE client

\* run_query without the test of the driver: None has no session()
run_query_NoDriverCheck(client, sess, fails) ==
    IF client._driver = 0
    THEN [raised |-> "AttributeError", executed |-> FALSE, sessions |-> sess]
    ELSE [raised |-> IF fails THEN "Neo4jError" ELSE "", executed |-> TRUE,
          sessions |-> [opened |-> sess.opened + 1, closed |-> sess.closed + 1]]

\* Neo4jClient.run_query: what it raises, whether the query was sent, and the
\* sessions opened and closed; the with block closes the session on both exits
run_query(client, sess, fails) ==
    IF client._driver = 0
    THEN [raised |-> "RuntimeError", executed |-> FALSE, sessions |-> sess]
    ELSE [raised |-> IF fails THEN "Neo4jError" ELSE "", executed |-> TRUE,
          sessions |-> [opened |-> sess.opened + 1, closed |-> sess.closed + 1]]

ClientCall(op, client, raised, executed) ==
    [op |-> op, client |-> client, raised |-> raised, executed |-> executed,
     before |-> [clients |-> clients, neo4j_client |-> neo4j_client]]

clientFrame == <<graph, art, model, faiss_index, occupation_uris, ready_answers,
                 pc, loads, notes, handlerVars>>

\* deps.init_neo4j_client
init_neo4j_client ==
    /\ Len(clients) < MaxClients
    /\ clients' = Append(clients, connect(NewClient))
    /\ neo4j_client' = Len(clients) + 1
    /\ last_call' = ClientCall("init_neo4j_client", 0, "", FALSE)
    /\ UNCHANGED <<sessions, clientFrame>>

\* deps.close_neo4j_client
close_neo4j_client ==
    /\ IF neo4j_client # 0
       THEN /\ clients' = [clients EXCEPT ![neo4j_client] = close(@)]
            /\ neo4j_client' = 0
       ELSE UNCHANGED <<clients, neo4j_client>>
    /\ last_call' = ClientCall("close_neo4j_client", neo4j_client, "", FALSE)
    /\ UNCHANGED <<sessions, clientFrame>>

\* deps.get_neo4j_client
get_neo4j_client ==
    /\ last_call' = ClientCall("get_neo4j_client", neo4j_client,
                               IF neo4j_client = 0 THEN "RuntimeError" ELSE "", FALSE)
    /\ UNCHANGED <<clientVars, clientFrame>>

\* client.connect() on a client object c some caller holds
call_connect(c) ==
    /\ clients[c]._driver = 0 => clients[c].created < MaxConnects
    /\ clients' = [clients EXCEPT ![c] = connect(@)]
    /\ last_call' = ClientCall("connect", c, "", FALSE)
    /\ UNCHANGED <<neo4j_client, sessions, clientFrame>>

\* client.close()
call_close(c) ==
    /\ clients' = [clients EXCEPT ![c] = close(@)]
    /\ last_call' = ClientCall("close", c, "", FALSE)
    /\ UNCHANGED <<neo4j_client, sessions, clientFrame>>

\* client.run_query(cypher, params); fails: the session raises
call_run_query(c, fails) ==
    /\ sessions.opened < MaxSessions
    /\ \E r \in {run_query(clients[c], sessions, fails)} :
          /\ sessions' = r.sessions
          /\ last_call' = ClientCall("run_query", c, r.raised, r.executed)
    /\ UNCHANGED <<clients, neo4j_client, clientFrame>>

NextClient ==
    \/ init_neo4j_client
    \/ close_neo4j_client
    \/ get_neo4j_client
    \/ \E c \in 1..Len(clients) : call_connect(c)
    \/ \E c \in 1..Len(clients) : call_close(c)
    \/ \E c \in 1..Len(clients), fails \in BOOLEAN : call_run_query(c, fails)

SpecClient == InitService /\ [][NextClient]_vars


(* ------------------------------- claims -------------------------------- *)
Answered == request # <<>>
Results == response.recommendations
ValidRequest ==
    /\ Answered
    /\ request.skills # NoList /\ request.skills # <<>>
    /\ request.limit >= 1 /\ request.limit <= MaxAllowedLimit

Uris(list) == [i \in 1..Len(list) |-> list[i].uri]
NoDuplicates(list) == \A i, j \in 1..Len(list) : list[i] = list[j] => i = j

\* the skills the graph says occupation o requires
RequiredOf(o) == {e.to : e \in {x \in graph.edges : x.from = o /\ x.type = "REQUIRES"}}

\* C1: a request with a non-empty skill list and a limit in [1,100] gets at most
\* limit results, and every result's match_percentage lies in [0, 100]
C1_AtMostLimitAndPercentageInRange ==
    ValidRequest =>
        /\ Len(Results) <= request.limit
        /\ \A i \in 1..Len(Results) :
              /\ Results[i].match_percentage.den > 0
              /\ Results[i].match_percentage.num >= 0
              /\ Results[i].match_percentage.num <= 100 * Results[i].match_percentage.den

\* a truncated answer: more occupations fetched than the limit, one half matched
C1_Witness ==
    /\ ValidRequest
    /\ response.status = HTTP_200_OK
    /\ Len(fetched) > request.limit
    /\ Len(Results) = request.limit
    /\ \E i \in 1..Len(Results) :
          /\ Results[i].match_percentage.num > 0
          /\ Results[i].match_percentage.num < 100 * Results[i].match_percentage.den

\* C2: matched_skills and missing_skills partition the required skills of every
\* result: each required skill is in exactly one list, once, matched iff the user
\* has it, and nothing else is in either list
C2_MatchedMissingPartitionRequired ==
    (Answered /\ response.status = HTTP_200_OK) =>
        \A i \in 1..Len(Results) :
            LET matched == Uris(Results[i].matched_skills)
                missing == Uris(Results[i].missing_skills)
                required == RequiredOf(Results[i].uri)
            IN  /\ NoDuplicates(matched \o missing)
                /\ Range(matched) \cup Range(missing) = required
                /\ Range(matched) = required \cap Range(request.skills)
                /\ Range(missing) = required \ Range(request.skills)

\* a result with a matched and a missing skill, for an occupation whose skill rows
\* the query multiplies (it is in two schemes)
C2_Witness ==
    /\ Answered
    /\ response.status = HTTP_200_OK
    /\ \E i \in 1..Len(Results) :
          /\ Results[i].matched_skills # <<>>
          /\ Results[i].missing_skills # <<>>
          /\ Cardinality({e \in graph.edges :
                            e.from = Results[i].uri /\ e.type = "IN_SCHEME"}) > 1

\* C3: the returned list is in non-increasing order of similarity_score
C3_SortedBySimilarityDescending ==
    (Answered /\ response.status = HTTP_200_OK) =>
        \A i \in 1..(Len(Results) - 1) :
            Results[i].similarity_score >= Results[i + 1].similarity_score

\* two results of different scores that the query returned in the other order
C3_Witness ==
    /\ Answered
    /\ response.status = HTTP_200_OK
    /\ Len(Results) >= 2
    /\ Results[1].similarity_score > Results[2].similarity_score
    /\ \E i, j \in 1..Len(fetched) :
          i < j /\ fetched[j] = Results[1].uri /\ fetched[i] = Results[2].uri


\* position of an occupation in the candidate list of the index search
CandidatePos(uri) ==
    CHOOSE i \in 1..Len(faiss_results) :
        faiss_results[i].uri = uri /\ \A j \in 1..(i - 1) : faiss_results[j].uri # uri

\* C4: results of equal similarity score keep the relative order they have in the
\* candidate list the vector index search returned
C4_TiesKeepCandidateOrder ==
    (Answered /\ response.status = HTTP_200_OK) =>
        \A i, j \in 1..Len(Results) :
            (i < j /\ Results[i].similarity_score = Results[j].similarity_score)
                => CandidatePos(Results[i].uri) < CandidatePos(Results[j].uri)

\* what the graph says about an occupation and a group
GroupsOf(o) == {e.to : e \in {x \in graph.edges : x.from = o /\ x.type = "IN_OCC_GROUP"}}
SchemesOf(o) == {e.to : e \in {x \in graph.edges : x.from = o /\ x.type = "IN_SCHEME"}}
GroupCode(grp) ==
    Prop(CHOOSE n \in NodesOf(graph, "OccupationGroup") : Prop(n, "uri") = grp, "code")
\* the groups 1 to 5 broader-than edges above grp, as the ETL stored the hierarchy
Ancestors(grp) == HopsFrom(graph, {grp}, {"BROADER_THAN_OCC_GROUP"}, 5)

RequestedGroups == Range(request.occupation_groups)
\* the code of a requested group: what follows the last "/C" of its uri, the whole
\* uri when it has none
CodeOfRequested(P) ==
    LET K == {k \in 2..Len(P) : P[k - 1] = "/" /\ P[k] = "C"}
    IN  IF K = {} THEN P
        ELSE SubSeq(P, (CHOOSE k \in K : \A m \in K : m <= k) + 1, Len(P))
GroupFilterOn == Answered /\ Truthy(request.occupation_groups)
SchemeFilterOn == Answered /\ Truthy(request.schemes)

DirectMember(o) == GroupsOf(o) \cap RequestedGroups # {}
AncestorMember(o) == \E grp \in GroupsOf(o) : Ancestors(grp) \cap RequestedGroups # {}
\* the code of a requested group is a prefix of the code of a group of o
FilterCodePrefixesGroupCode(o) ==
    \E grp \in GroupsOf(o), P \in RequestedGroups : StartsWith(GroupCode(grp), CodeOfRequested(P))
\* the code of a group of o is a prefix of the code of a requested group
GroupCodePrefixesFilterCode(o) ==
    \E grp \in GroupsOf(o), P \in RequestedGroups : StartsWith(CodeOfRequested(P), GroupCode(grp))
SchemeMember(o) == SchemesOf(o) \cap Range(request.schemes) # {}

\* the candidates of the index search that are occupations of the graph and pass
\* the scheme filter, if there is one
CandidateOccupations ==
    {o \in Range(Uris(faiss_results)) :
        /\ \E n \in NodesOf(graph, "Occupation") : Prop(n, "uri") = o
        /\ SchemeFilterOn => SchemeMember(o)}

\* C5: every returned occupation satisfies every active filter: with a group
\* filter it is a member of a requested group, or of a group below a requested
\* group, or of a group matching a requested group by code prefix; with a scheme
\* filter it is in a requested scheme
C5_ResultsSatisfyFilters ==
    (Answered /\ response.status = HTTP_200_OK) =>
        \A i \in 1..Len(Results) :
            /\ GroupFilterOn =>
                  \/ DirectMember(Results[i].uri)
                  \/ AncestorMember(Results[i].uri)
                  \/ FilterCodePrefixesGroupCode(Results[i].uri)
            /\ SchemeFilterOn => SchemeMember(Results[i].uri)

\* a group filter kept one candidate and removed another that is in some group
C5_Witness ==
    /\ GroupFilterOn
    /\ response.status = HTTP_200_OK
    /\ Results # <<>>
    /\ \E o \in CandidateOccupations :
          /\ o \notin Range(fetched)
          /\ GroupsOf(o) # {}

\* C6: a candidate in group g passes the group filter for a requested group P
\* whenever P is 1 to 5 broader-than edges above g in the stored hierarchy
C6_TransitiveGroupMatch ==
    (GroupFilterOn /\ response.status = HTTP_200_OK) =>
        \A o \in CandidateOccupations : AncestorMember(o) => o \in Range(fetched)

\* C7 as stated: a candidate passes the group filter when it is in a group whose
\* code is a prefix of the code of a requested group
C7_GroupCodePrefixOfFilterCode ==
    (GroupFilterOn /\ response.status = HTTP_200_OK) =>
        \A o \in CandidateOccupations : GroupCodePrefixesFilterCode(o) => o \in Range(fetched)

\* C7 amended: a candidate passes the group filter when it is in a group whose code
\* starts with the code of a requested group, that code being the part of the
\* requested uri after the last "/C"
C7_FilterCodePrefixOfGroupCode ==
    (GroupFilterOn /\ response.status = HTTP_200_OK) =>
        \A o \in CandidateOccupations : FilterCodePrefixesGroupCode(o) => o \in Range(fetched)

\* a candidate passed by its group's code alone: it is in no requested group, and
\* the requested code is a proper prefix of its group's code
C7_Witness ==
    /\ GroupFilterOn
    /\ response.status = HTTP_200_OK
    /\ \E o \in CandidateOccupations :
          /\ o \in Range(fetched)
          /\ ~DirectMember(o)
          /\ \E grp \in GroupsOf(o), P \in RequestedGroups :
                /\ StartsWith(GroupCode(grp), CodeOfRequested(P))
                /\ CodeOfRequested(P) # <<>>
                /\ GroupCode(grp) # CodeOfRequested(P)

\* C8: the index is asked for limit*3 candidates when a group or scheme filter is
\* present and for limit candidates otherwise, once per request
C8_OverFetchWhenFiltered ==
    /\ (Answered /\ search_top_k # <<>>) =>
          search_top_k = <<IF GroupFilterOn \/ SchemeFilterOn
                           THEN request.limit * 3 ELSE request.limit>>
    /\ (ValidRequest /\ response.status = HTTP_200_OK) => Len(search_top_k) = 1

\* the largest limit with a filter, and the index asked for three times as many
C8_Witness ==
    /\ ValidRequest
    /\ response.status = HTTP_200_OK
    /\ GroupFilterOn
    /\ request.limit = 100
    /\ search_top_k = <<300>>

\* C9: the result is the limit highest-scoring occupations of the filtered pool;
\* when fewer than limit pass the filters all of them are returned, without error
C9_TopOfFilteredPool ==
    ValidRequest =>
        /\ response.status = HTTP_200_OK
        /\ Range(fetched) \subseteq Range(Uris(faiss_results))
        /\ NoDuplicates(Uris(Results))
        /\ Range(Uris(Results)) \subseteq Range(fetched)
        /\ Len(Results) = Min(request.limit, Len(fetched))
        /\ \A i \in 1..Len(Results) : \A o \in Range(fetched) \ Range(Uris(Results)) :
              \E k \in 1..Len(faiss_results) :
                  /\ faiss_results[k].uri = o
                  /\ faiss_results[k].score <= Results[i].similarity_score

\* filters are on and fewer occupations than the limit passed them: all returned
C9_Witness ==
    /\ ValidRequest
    /\ GroupFilterOn
    /\ response.status = HTTP_200_OK
    /\ Len(fetched) >= 1
    /\ Len(fetched) < request.limit
    /\ Len(faiss_results) > Len(fetched)
    /\ Range(Uris(Results)) = Range(fetched)

\* C10: a request with an empty skill list, a limit <= 0 or a limit > 100 that
\* reaches the service ends as ValueError, answered 400, and issues no GraphStore
\* query, no encode and no index search
C10_InvalidRequestRejectedFirst ==
    (Answered /\ ~ValidRequest) =>
        /\ graph_queries = 0
        /\ encode_inputs = <<>>
        /\ search_top_k = <<>>
        /\ Results = <<>>
        /\ svc_outcome # "not called" =>
              /\ svc_outcome = "ValueError"
              /\ response.status = HTTP_400_BAD_REQUEST

\* a limit above 100 with skills given, answered 400
C10_Witness ==
    /\ Answered
    /\ request.skills # NoList /\ request.skills # <<>>
    /\ request.limit > 100
    /\ svc_outcome = "ValueError"
    /\ response.status = HTTP_400_BAD_REQUEST

\* C11: every result's match_percentage is the number of distinct required skills
\* the user has, over the number of distinct required skills, times 100; for an
\* occupation that requires no skill it is 0 with no matched and no missing skill
C11_MatchPercentageFormula ==
    (Answered /\ response.status = HTTP_200_OK) =>
        \A i \in 1..Len(Results) :
            LET required == RequiredOf(Results[i].uri)
                had == required \cap Range(request.skills)
                pct == Results[i].match_percentage
            IN  /\ pct.den > 0
                /\ required # {} =>
                       pct.num * Cardinality(required) = Cardinality(had) * 100 * pct.den
                /\ required = {} =>
                       /\ pct.num = 0
                       /\ Results[i].matched_skills = <<>>
                       /\ Results[i].missing_skills = <<>>

\* one answer holding an occupation that requires nothing and one half matched
C11_Witness ==
    /\ Answered
    /\ response.status = HTTP_200_OK
    /\ \E i, j \in 1..Len(Results) :
          /\ RequiredOf(Results[i].uri) = {}
          /\ Results[i].match_percentage.num = 0
          /\ Cardinality(RequiredOf(Results[j].uri)) = 2
          /\ Results[j].match_percentage.num * 2 = 100 * Results[j].match_percentage.den

\* C12: for one occupation, whose required skills are fixed, a user skill set
\* that contains another gets a match_percentage at least as high
C12_MatchPercentageMonotone ==
    \A U1, U2 \in DOMAIN gap_log :
        Range(U1) \subseteq Range(U2) =>
            gap_log[U1].num * gap_log[U2].den <= gap_log[U2].num * gap_log[U1].den

\* a skill added to the user's list raised the percentage from 50 to 100
C12_Witness ==
    \E U1, U2 \in DOMAIN gap_log :
        /\ Range(U1) \subseteq Range(U2) /\ Range(U1) # Range(U2)
        /\ gap_log[U1].num * 2 = 100 * gap_log[U1].den
        /\ gap_log[U2].num = 100 * gap_log[U2].den

\* the label the graph holds for a skill uri, the uri itself when it holds none
ExpectedLabel(u) ==
    LET nodes == {n \in graph.nodes : n.label = "Skill" /\ n.props.uri = u}
    IN  IF nodes = {} THEN u ELSE (CHOOSE n \in nodes : TRUE).props.preferredLabel

ExpectedLabels(skill_uris) == [i \in 1..Len(skill_uris) |-> ExpectedLabel(skill_uris[i])]

\* C13: _get_skill_labels gives one label per input uri, in input order, the graph's
\* label for a uri that resolves and the uri itself otherwise; the text the request
\* encodes is made of these labels, and an unknown skill does not fail the request
C13_LabelPerUriWithFallback ==
    (ValidRequest /\ neo4j_fault = "none") =>
        /\ _get_skill_labels(graph, request.skills) = ExpectedLabels(request.skills)
        /\ encode_inputs = <<<<JoinSpace(ExpectedLabels(request.skills))>>>>
        /\ response.status = HTTP_200_OK

\* a request whose first skill is unknown and whose second resolves
C13_Witness ==
    /\ ValidRequest
    /\ response.status = HTTP_200_OK
    /\ Len(request.skills) = 2
    /\ ExpectedLabel(request.skills[1]) = request.skills[1]
    /\ ExpectedLabel(request.skills[2]) # request.skills[2]
    /\ encode_inputs = <<<<request.skills[1] \o <<" ">> \o ExpectedLabel(request.skills[2])>>>>

\* every text handed to MLEngine.encode for the request, in call order
RECURSIVE Flatten(_)
Flatten(lists) == IF lists = <<>> THEN <<>> ELSE lists[1] \o Flatten(Tail(lists))

\* C14: the query vector comes from encoding each skill label on its own, one
\* encode input per skill, not from encoding one concatenated string
C14_EncodesEachLabelSeparately ==
    (ValidRequest /\ encode_inputs # <<>>) =>
        Flatten(encode_inputs) = ExpectedLabels(request.skills)

\* the ids the index returned for the last direct search call
LastHits == IndexSearch(faiss_index, last_call.query, last_call.top_k)

ValidId(idx) == idx >= 0 /\ idx < Len(occupation_uris)

\* the uris at the rows of the valid ids of hits, in the order of hits
RECURSIVE UrisOfValidHits(_)
UrisOfValidHits(hits) ==
    IF hits = <<>> THEN <<>>
    ELSE (IF ValidId(hits[1].idx) THEN <<occupation_uris[hits[1].idx + 1]>> ELSE <<>>)
            \o UrisOfValidHits(Tail(hits))

SearchServed ==
    /\ last_call # <<>>
    /\ last_call.op = "search"
    /\ faiss_index # Unloaded
    /\ occupation_uris # NoList
    /\ last_call.query.dim = faiss_index.d

\* C15: a search on a loaded engine does not fail because the index returned an id
\* that is negative or beyond the uri mapping; such an id gives no candidate, and
\* every other id gives exactly one, the uri at its row, in the order of the index
C15_InvalidIdsSkipped ==
    SearchServed =>
        /\ ~last_call.raised
        /\ Uris(last_call.value) = UrisOfValidHits(LastHits)

\* a search that got a negative id and an id beyond the mapping, and a valid one
C15_Witness ==
    /\ SearchServed
    /\ \E i \in 1..Len(LastHits) : LastHits[i].idx < 0
    /\ \E i \in 1..Len(LastHits) : LastHits[i].idx >= Len(occupation_uris)
    /\ \E i \in 1..Len(LastHits) : ValidId(LastHits[i].idx)
    /\ Len(last_call.value) = 2

\* C16: every returned element carries a similarity score and its skill-gap data,
\* and the score is the one its uri has in the candidate list of the index search
C16_ScoreAndGapOnEveryResult ==
    (Answered /\ response.status = HTTP_200_OK) =>
        \A i \in 1..Len(Results) :
            /\ {"similarity_score", "matched_skills", "missing_skills", "match_percentage"}
                   \subseteq DOMAIN Results[i]
            /\ \E k \in 1..Len(faiss_results) :
                   /\ faiss_results[k].uri = Results[i].uri
                   /\ faiss_results[k].score = Results[i].similarity_score

\* two results with different scores above zero
C16_Witness ==
    /\ Answered
    /\ response.status = HTTP_200_OK
    /\ Len(Results) = 2
    /\ Results[1].similarity_score > Results[2].similarity_score
    /\ Results[2].similarity_score > 0

\* a run_query of the request raised: the label lookup, or the occupation fetch
GraphStoreFailed ==
    \/ neo4j_fault = "labels" /\ graph_queries >= 1
    \/ neo4j_fault = "fetch" /\ graph_queries >= 2

\* C17: a request one of whose two graph queries failed ends with an error status
\* and no result list, and a 200 answer with an empty list is given only when no
\* query failed and no candidate passed the fetch
C17_GraphStoreFailureIsAnError ==
    Answered =>
        /\ GraphStoreFailed =>
               /\ response.status = HTTP_500_INTERNAL_SERVER_ERROR
               /\ Results = <<>>
               /\ response.total = 0
        /\ (response.status = HTTP_200_OK /\ Results = <<>>) =>
               /\ ~GraphStoreFailed
               /\ fetched = <<>>

\* the fetch failed after the index search had returned candidates
C17_Witness ==
    /\ Answered
    /\ neo4j_fault = "fetch"
    /\ graph_queries = 2
    /\ faiss_results # <<>>
    /\ response.status = HTTP_500_INTERNAL_SERVER_ERROR

\* a success with an empty list: the filters left no candidate
C17_WitnessEmptySuccess ==
    /\ Answered
    /\ response.status = HTTP_200_OK
    /\ Results = <<>>
    /\ faiss_results # <<>>

NoDownstreamCall ==
    /\ graph_queries = 0
    /\ encode_inputs = <<>>
    /\ search_top_k = <<>>

DimensionMismatch == art.model_ok /\ art.index_exists /\ art.model_dim # art.index.d

\* C19: with a model whose dimension differs from the index's, is_ready() answers
\* False every time, a search never returns a candidate and raises for every query
\* the model can produce, and no request is answered with recommendations
C19_DimensionMismatchNeverServes ==
    DimensionMismatch =>
        /\ TRUE \notin ready_answers
        /\ (last_call # <<>> /\ last_call.op = "search") =>
               /\ last_call.value = <<>>
               /\ last_call.query.dim = art.model_dim => last_call.raised
        /\ Answered => response.status = HTTP_503_SERVICE_UNAVAILABLE

\* a search with an embedding of the model, after the failed load left the index
\* and the model in place
C19_Witness ==
    /\ DimensionMismatch
    /\ FALSE \in ready_answers
    /\ faiss_index # Unloaded
    /\ model # Unloaded
    /\ last_call # <<>>
    /\ last_call.op = "search"
    /\ last_call.query.dim = art.model_dim
    /\ last_call.raised
    /\ Len(faiss_index.vecs) > 0

RowCountMismatch ==
    /\ art.model_ok /\ art.index_exists /\ art.meta_exists /\ art.meta_has_column
    /\ Len(art.meta_uris) # Len(art.index.vecs)

\* C20: when the metadata table and the index differ in their number of rows,
\* loading fails: the engine never reports ready and no request is served
C20_RowCountValidatedAtLoad ==
    RowCountMismatch =>
        /\ TRUE \notin ready_answers
        /\ occupation_uris = NoList
        /\ Answered => response.status # HTTP_200_OK

\* C21: whatever the interleaving of the threads, the model, the index and the uri
\* mapping are each assigned at most once
C21_EachResourceLoadedOnce ==
    /\ loads.model <= 1
    /\ loads.faiss_index <= 1
    /\ loads.occupation_uris <= 1

\* C22: with the index, the mapping and the graph unchanged, a request gets the
\* same answer, with the same ordered result list, every time it is made, whatever
\* requests ran before it and whether or not it was the one that loaded the engine
C22_IdenticalRequestsIdenticalResults ==
    \A r \in DOMAIN answers : Cardinality(answers[r].seen) <= 1

\* a request made twice, the first time on an engine not yet loaded, with another
\* request answered as well, each time with two results
C22_Witness ==
    \E r, other \in DOMAIN answers :
        /\ r # other
        /\ answers[r].times >= 2
        /\ answers[other].times >= 1
        /\ \E resp \in answers[r].seen :
              /\ resp.status = HTTP_200_OK
              /\ Len(resp.recommendations) = 2

\* the relation the ETL stored on the requires-edge from occupation o to skill u
StoredRelation(o, u) ==
    (CHOOSE e \in graph.edges : e.from = o /\ e.type = "REQUIRES" /\ e.to = u).props.relation

\* C23: every entry of matched_skills and missing_skills shows the relation type
\* the ETL stored on the requires-edge of its occupation and skill, whether or not
\* the user has the skill
C23_RelationTypeAsStored ==
    (Answered /\ response.status = HTTP_200_OK) =>
        \A i \in 1..Len(Results) :
            \A sk \in Range(Results[i].matched_skills) \cup Range(Results[i].missing_skills) :
                sk.relation_type = StoredRelation(Results[i].uri, sk.uri)

SoundArtifacts ==
    /\ art.model_ok /\ art.index_exists /\ art.meta_exists /\ art.meta_has_column
    /\ art.model_dim = art.index.d
    /\ Len(art.meta_uris) = Len(art.index.vecs)

\* C24: once every artifact is in place and consistent, is_ready() answers True,
\* whichever artifact was missing when an earlier load attempt failed
C24_NotReadyIsRetryable ==
    (last_call # <<>> /\ last_call.op = "is_ready" /\ SoundArtifacts) =>
        last_call.value = <<TRUE>>

DeletedExistingLink ==
    /\ last_call # <<>>
    /\ last_call.op = "delete_note"
    /\ <<last_call.occupation_uri, last_call.note_id>> \in last_call.before.links

LinkedElsewhere ==
    \E l \in last_call.before.links :
        l[2] = last_call.note_id /\ l[1] # last_call.occupation_uri

\* C25: a delete_note that reaches the store and addresses an existing
\* HAS_NOTE link removes the link and reports success (repository True,
\* service 200); the Note node is deleted exactly when no other occupation
\* was linked to it, and a note linked elsewhere keeps its node while the
\* call still succeeds.
C25_DeleteExistingLinkSucceeds ==
    (DeletedExistingLink /\ ~last_call.failed) =>
        /\ <<last_call.occupation_uri, last_call.note_id>> \notin notes.links
        /\ last_call.value = TRUE
        /\ last_call.status = HTTP_200_OK
        /\ (last_call.note_id \in DOMAIN notes.texts) <=> LinkedElsewhere

StorageFailedOnDelete ==
    /\ last_call # <<>>
    /\ last_call.op = "delete_note"
    /\ last_call.failed

\* C26: a delete_note whose query fails in the store answers 500, never
\* the 404 that stands for a note or link that does not exist.
C26_DeleteStorageFailureIs500 ==
    StorageFailedOnDelete => last_call.status = HTTP_500_INTERNAL_SERVER_ERROR

\* the notes listed for an occupation: note ids with their text
NotesListedFor(store, occupation_uri) ==
    {<<l[2], store.texts[l[2]]>> : l \in {k \in store.links : k[1] = occupation_uri}}

\* C28: an upsert_note or delete_note addressed to one occupation leaves
\* the notes listed for every other occupation, ids and text, as they were.
C28_OtherOccupationsNotesUnchanged ==
    (last_call # <<>> /\ last_call.op \in {"upsert_note", "delete_note"}) =>
        \A b \in NoteOccupations \ {last_call.occupation_uri} :
            NotesListedFor(notes, b) = NotesListedFor(last_call.before, b)

SkillGapAsked ==
    /\ last_call # <<>>
    /\ last_call.op = "get_skill_gap_graph"
    /\ last_call.loaded

\* C27: with the graph loaded, the skill-gap route answers 400 for a uri that
\* does not start with the ESCO occupation prefix, 404 for a well-formed uri
\* that is not a node of the graph, and 500 only when the traversal fails.
C27_SkillGapStatusCodes ==
    SkillGapAsked =>
        LET uri == last_call.occupation_uri
            wellFormed == StartsWith(uri, EscoOccupationPrefix)
            isNode == uri \in {n.uri : n \in build_esco_graph(graph).nodes}
        IN  /\ ~wellFormed => last_call.status = HTTP_400_BAD_REQUEST
            /\ (wellFormed /\ ~isNode) => last_call.status = HTTP_404_NOT_FOUND
            /\ last_call.status = HTTP_500_INTERNAL_SERVER_ERROR =>
                   (wellFormed /\ isNode /\ last_call.traversal_fails)

LegacyServed ==
    /\ last_call # <<>>
    /\ last_call.op = "legacy_get_recommendations"
    /\ last_call.status = HTTP_200_OK

\* the rows of the metadata the ids of the search stand for, ids outside the
\* row range left out
RowsOfValidHits ==
    LET metadata_df == lifespan(art).metadata_df
        kept == SelectSeq(last_call.hits,
                          LAMBDA h : h.idx >= 0 /\ h.idx < Len(metadata_df))
    IN  [i \in 1..Len(kept) |-> metadata_df[kept[i].idx + 1]["conceptUri"]]

\* C29: the recommendations the legacy endpoint returns are those of the ids
\* inside the row range of the metadata, in the order of the search; an id
\* outside the range, -1 included, contributes no recommendation.
C29_LegacyNoRecommendationOutsideRange ==
    LegacyServed =>
        [i \in 1..Len(last_call.recommendations) |-> last_call.recommendations[i].esco_uri]
            = RowsOfValidHits

ClientOps == {"init_neo4j_client", "close_neo4j_client", "get_neo4j_client",
              "connect", "close", "run_query"}

ClientCalled(op) ==
    /\ last_call # <<>>
    /\ last_call.op = op

DriverBefore == last_call.before.clients[last_call.client]._driver

\* C30: run_query sends its query exactly when the client's driver is
\* connected and raises RuntimeError when it is not; get_neo4j_client raises
\* RuntimeError exactly while no client is installed, which is the case before
\* init_neo4j_client and after close_neo4j_client; connect leaves a connected
\* client and close a closed client as they are; and no session opened by
\* run_query is left open once the call has ended.
C30_ClientLifecycle ==
    /\ sessions.opened = sessions.closed
    /\ ClientCalled("run_query") =>
          /\ last_call.executed <=> DriverBefore # 0
          /\ DriverBefore = 0 => last_call.raised = "RuntimeError"
    /\ ClientCalled("get_neo4j_client") =>
          (last_call.raised = "RuntimeError" <=> last_call.before.neo4j_client = 0)
    /\ ClientCalled("init_neo4j_client") =>
          /\ neo4j_client # 0
          /\ clients[neo4j_client]._driver # 0
    /\ ClientCalled("close_neo4j_client") =>
          /\ neo4j_client = 0
          /\ last_call.client # 0 => clients[last_call.client]._driver = 0
    /\ ClientCalled("connect") =>
          /\ clients[last_call.client]._driver # 0
          /\ DriverBefore # 0 => clients = last_call.before.clients
    /\ ClientCalled("close") =>
          /\ clients[last_call.client]._driver = 0
          /\ DriverBefore = 0 => clients = last_call.before.clients

\* a query refused on a client that was connected and closed again, after an
\* earlier query on an open driver
C30_Witness ==
    /\ ClientCalled("run_query")
    /\ last_call.raised = "RuntimeError"
    /\ last_call.before.clients[last_call.client].closed > 0
    /\ sessions.opened > 0
====
